---- MODULE Spec2Model ----
(***************************************************************************)
(* django-video-transcoding: the Celery job runner (tasks.py, helpers.py,  *)
(* models.py) working on one Video row, and the resumable strategy         *)
(* (strategy.py) working on one workspace.                                 *)
(***************************************************************************)
EXTENDS Integers, Sequences, FiniteSets, TLC

(* models.Video: CREATED, QUEUED, PROCESS, DONE, ERROR = range(5) *)
CREATED == 0
QUEUED == 1
PROCESS == 2
DONE == 3
ERROR == 4

(* None / SQL NULL *)
NULL == "null"

(* celery.Task.max_retries, which TranscodeVideo inherits unchanged *)
MaxRetries == 3

(* how many messages the broker takes in from send_transcode_task calls    *)
(* and from redeliveries of unacknowledged messages                        *)
MaxPublish == 3

Workers == {"w1", "w2"}

(* uuid of the n-th task published by apply_async *)
TaskNames == <<"t1", "t2", "t3", "t4">>
TaskIds == {TaskNames[i] : i \in 1..Len(TaskNames)}

(* what process_video may return, and what it may raise *)
Metas == {"meta_a", "meta_b"}

(* asdict(dst): the dictionary process_video returns for a result, one
   record per output stream with every field of the stream's dataclass *)
AsDict(m) ==
    IF m = "meta_a"
    THEN [uri |-> "a.mp4",
          videos |-> <<[duration |-> 10, start |-> 0, bitrate |-> 5000000,
                        scenes |-> <<[duration |-> 10, start |-> 0]>>,
                        streams |-> <<"a.mp4">>, width |-> 1920,
                        height |-> 1080, device |-> NULL]>>,
          audios |-> <<[duration |-> 9, start |-> 0, bitrate |-> 192000,
                        scenes |-> <<[duration |-> 9, start |-> 0]>>,
                        streams |-> <<"a.mp4">>, channels |-> 2]>>]
    ELSE [uri |-> "b.mp4",
          videos |-> <<[duration |-> 7, start |-> 0, bitrate |-> 5000000,
                        scenes |-> <<[duration |-> 7, start |-> 0]>>,
                        streams |-> <<"b.mp4">>, width |-> 1280,
                        height |-> 720, device |-> NULL]>>,
          audios |-> <<[duration |-> 8, start |-> 0, bitrate |-> 192000,
                        scenes |-> <<[duration |-> 8, start |-> 0]>>,
                        streams |-> <<"b.mp4">>, channels |-> 2]>>]

(* the output streams of a result dictionary *)
OutputStreams(d) == d.videos \o d.audios
Exceptions == {"TranscodeError"}
SoftTimeLimitExceeded == "SoftTimeLimitExceeded"

(* repr(e) of an exception raised without arguments *)
Repr(e) == e \o "()"

Msg == [id : TaskIds, retries : 0..MaxRetries]
NoRequest == [id |-> NULL, retries |-> 0]
NoLocal == [status |-> DONE, error |-> NULL, meta |-> NULL]
NoResult == [kind |-> "none", value |-> NULL]

VARIABLES
    status, task_id, basename, error, metadata,  \* the Video row
    duration,     \* Video.duration
    written,      \* update_fields of the last save of the row
    rowLock,      \* the worker whose open transaction holds the row lock
    msgs,         \* the broker queue: message -> number of copies
    sent,         \* tasks published so far
    redelivered,  \* redeliveries so far
    pc, request, local, exc,   \* per worker: the running task
    result,       \* outcome of the task run that finished last
    locks         \* number of lock_video calls that committed

VARIABLES
    ws,           \* the temp workspace: file -> content
    wsRoot,       \* the temp tree <temp>/<basename>/ exists
    store,        \* the store tree <store>/<basename>/: absent, empty or hls
    spc,          \* the pipeline's position in Strategy.__call__
    step,         \* within a guarded step: check, write (open) or fill
    pending,      \* the content ws.write has been called with
    segments,     \* the list get_segment_list returned in this run
    idx,          \* index of the chunk process_segment works on
    transcoded,   \* chunk -> number of Transcoder invocations so far
    processed,    \* chunks whose process_segment has returned in some run
    kept,         \* those of them processed since the temp tree was last deleted
    runs,         \* pipeline runs started so far
    outcome,      \* how the last run ended
    effects,      \* files written and trees deleted by the last run, in order
    invoked,      \* guarded step -> calls of its operation in the last run
    values        \* guarded step -> the value the step got in the last run

VARIABLES
    ffReturn,     \* what ff.run() returned: return code, output, error
    epc,          \* the position of Processor.run: idle, ran or done
    encoded       \* how Processor.run ended

encoderVars == <<ffReturn, epc, encoded>>

VARIABLES
    pgid,         \* process -> the id of its process group
    alive,        \* the worker processes that are running
    delivered,    \* process -> SIGUSR1 signals it has received
    kills,        \* the os.killpg calls made so far, in order
    shutdowns,    \* worker_shutting_down events handled so far
    handler,      \* how the last send_term_to_children ended
    logged        \* logger.error calls of send_term_to_children

supervisorVars == <<pgid, alive, delivered, kills, shutdowns, handler, logged>>

VARIABLES
    videos,       \* video -> its row: state, status, task_id
    onCommit,     \* video -> callbacks transaction.on_commit holds for it
    applied,      \* video -> apply_async calls made for it
    queue,        \* the tasks apply_async has published, in order
    saves         \* saves of already existing rows so far

saveVars == <<videos, onCommit, applied, queue, saves>>

VARIABLES
    base,         \* the URI workspace.init is called with
    wsObj,        \* what workspace.init gave: the workspace, or the error
    tree,         \* the backend: path below the workspace root -> content
    last,         \* the last workspace operation and how it ended
    requests      \* the HTTP requests the last operation issued, in order

workspaceVars == <<base, wsObj, tree, last, requests>>

VARIABLES
    selectArgs,   \* the preset and source streams select_profile was given
    selected      \* what select_profile returned or raised

profileVars == <<selectArgs, selected>>

VARIABLES
    durations,    \* stream durations of the source and of the result
    validation,   \* how Transcoder.validate ended on them
    jobStatus     \* the status process_video and run leave the job in

validateVars == <<durations, validation, jobStatus>>

VARIABLES
    sentinel,     \* the sentinel a guarded step wrote: file and content
    stepValue,    \* the value the step returned in the run that wrote it
    resumed       \* the value the step returned in the run that found it

roundTripVars == <<sentinel, stepValue, resumed>>

VARIABLES
    called,       \* the function that was applied
    args,         \* what it was applied to
    returned      \* what it returned

callVars == <<called, args, returned>>

strategyVars == <<ws, wsRoot, store, spc, step, pending, segments, idx,
                  transcoded, processed, kept, runs, outcome, effects,
                  invoked, values>>

jobVars == <<status, task_id, basename, error, metadata, duration, written, rowLock,
             msgs, sent, redelivered, pc, request, local, exc, result, locks>>

vars == <<jobVars, strategyVars, encoderVars, supervisorVars, saveVars,
    workspaceVars, profileVars, validateVars, roundTripVars, callVars>>

(* what a step of the job runner, or of the strategy, leaves alone *)
nonJobVars == <<strategyVars, encoderVars, supervisorVars, saveVars,
    workspaceVars, profileVars, validateVars, roundTripVars, callVars>>
nonStrategyVars == <<jobVars, encoderVars, supervisorVars, saveVars,
    workspaceVars, profileVars, validateVars, roundTripVars, callVars>>
nonEncoderVars == <<jobVars, strategyVars, supervisorVars, saveVars,
    workspaceVars, profileVars, validateVars, roundTripVars, callVars>>
nonSupervisorVars == <<jobVars, strategyVars, encoderVars, saveVars,
    workspaceVars, profileVars, validateVars, roundTripVars, callVars>>
nonSaveVars == <<jobVars, strategyVars, encoderVars, supervisorVars,
    workspaceVars, profileVars, validateVars, roundTripVars, callVars>>
nonProfileVars == <<jobVars, strategyVars, encoderVars, supervisorVars,
    saveVars, workspaceVars, validateVars, roundTripVars, callVars>>
nonValidateVars == <<jobVars, strategyVars, encoderVars, supervisorVars,
    saveVars, workspaceVars, profileVars, roundTripVars, callVars>>
nonWorkspaceVars == <<jobVars, strategyVars, encoderVars, supervisorVars,
    saveVars, profileVars, validateVars, roundTripVars, callVars>>

nonRoundTripVars == <<jobVars, strategyVars, encoderVars, supervisorVars,
    saveVars, workspaceVars, profileVars, validateVars, callVars>>

nonCallVars == <<jobVars, strategyVars, encoderVars, supervisorVars,
    saveVars, workspaceVars, profileVars, validateVars, roundTripVars>>

rowVars == <<status, task_id, basename, error, metadata, duration, written>>

(* the columns of the Video table *)
Columns == {"status", "error", "task_id", "source", "basename", "preset",
            "metadata", "duration", "created", "modified"}

(* a save() without update_fields, which writes every column *)
UpdateFieldsAll(fields) == Columns

(* Video.change_status: update_fields = {'status', 'modified'} and the keys
   of **fields *)
UpdateFields(fields) == {"status", "modified"} \cup fields

InitJob ==
    /\ status = CREATED
    /\ task_id = NULL
    /\ basename = NULL
    /\ error = NULL
    /\ metadata = NULL
    /\ duration = NULL
    /\ written = {}
    /\ rowLock = NULL
    /\ msgs = [m \in Msg |-> 0]
    /\ sent = 0
    /\ redelivered = 0
    /\ pc = [w \in Workers |-> "idle"]
    /\ request = [w \in Workers |-> NoRequest]
    /\ local = [w \in Workers |-> NoLocal]
    /\ exc = [w \in Workers |-> "none"]
    /\ result = NoResult
    /\ locks = 0

Publish(q, m) == [q EXCEPT ![m] = @ + 1]

(* helpers.send_transcode_task: apply_async publishes the task, then       *)
(* video.change_status(QUEUED, task_id=result.task_id); the UPDATE waits   *)
(* for a transaction that holds the row lock                               *)
SendTranscodeTask ==
    /\ sent + redelivered < MaxPublish
    /\ rowLock = NULL
    /\ sent' = sent + 1
    /\ msgs' = Publish(msgs, [id |-> TaskNames[sent + 1], retries |-> 0])
    /\ status' = QUEUED
    /\ task_id' = TaskNames[sent + 1]
    /\ written' = UpdateFields({"task_id"})
    /\ UNCHANGED nonJobVars
    /\ UNCHANGED <<basename, error, metadata, duration, rowLock, redelivered, pc,
                   request, local, exc, result, locks>>

(* task_acks_late: the message of a task is unacknowledged while it runs,  *)
(* and the broker may hand it out again while the task still runs          *)
Redeliver(w) ==
    /\ pc[w] # "idle"
    /\ sent + redelivered < MaxPublish
    /\ redelivered' = redelivered + 1
    /\ msgs' = Publish(msgs, request[w])
    /\ UNCHANGED nonJobVars
    /\ UNCHANGED <<rowVars, rowLock, sent, pc, request, local, exc,
                   result, locks>>

(* select_for_update that takes a row another transaction has locked instead
   of skipping it *)
SelectForUpdateLockedRow(m, expected) ==
    IF task_id # m.id THEN "ValueError"
    ELSE IF status # expected THEN "ValueError"
    ELSE "ok"

(* select_for_update without the comparison of the stored status with the
   expected one *)
SelectForUpdateAnyStatus(m, expected) ==
    IF rowLock # NULL THEN "DoesNotExist"
    ELSE IF task_id # m.id THEN "ValueError"
    ELSE "ok"

(* select_for_update without the comparison of the stored task_id with the
   id of the current request *)
SelectForUpdateAnyTask(m, expected) ==
    IF rowLock # NULL THEN "DoesNotExist"
    ELSE IF status # expected THEN "ValueError"
    ELSE "ok"

(* TranscodeVideo.select_for_update: "ok", or the exception it raises *)
SelectForUpdate(m, expected) ==
    IF rowLock # NULL THEN "DoesNotExist"
    ELSE IF task_id # m.id THEN "ValueError"
    ELSE IF status # expected THEN "ValueError"
    ELSE "ok"

(* celery.Task.retry: publish the task again while retries are left *)
CanRetry(m) == m.retries < MaxRetries

Retried(m) == [id |-> m.id, retries |-> m.retries + 1]

(* a worker takes a message, enters TranscodeVideo.run, and lock_video's  *)
(* select_for_update(video_id, QUEUED) succeeds                            *)
LockSelect(w) ==
    /\ pc[w] = "idle"
    /\ \E m \in Msg :
         /\ msgs[m] > 0
         /\ SelectForUpdate(m, QUEUED) = "ok"
         /\ msgs' = [msgs EXCEPT ![m] = @ - 1]
         /\ request' = [request EXCEPT ![w] = m]
    /\ rowLock' = w
    /\ pc' = [pc EXCEPT ![w] = "lock_commit"]
    /\ UNCHANGED nonJobVars
    /\ UNCHANGED <<rowVars, sent, redelivered, local, exc, result, locks>>

(* a worker takes a message, enters TranscodeVideo.run, and lock_video's  *)
(* select_for_update raises: raise self.retry(exc=e)                       *)
LockRetry(w) ==
    /\ pc[w] = "idle"
    /\ \E m \in Msg :
         /\ msgs[m] > 0
         /\ SelectForUpdate(m, QUEUED) # "ok"
         /\ IF CanRetry(m)
            THEN /\ msgs' = Publish([msgs EXCEPT ![m] = @ - 1], Retried(m))
                 /\ result' = [kind |-> "Retry", value |-> NULL]
            ELSE /\ msgs' = [msgs EXCEPT ![m] = @ - 1]
                 /\ result' = [kind |-> SelectForUpdate(m, QUEUED), value |-> NULL]
    /\ UNCHANGED nonJobVars
    /\ UNCHANGED <<rowVars, rowLock, sent, redelivered, pc, request, local,
                   exc, locks>>

(* lock_video with the database connection failing in select_for_update:
   OperationalError is none of the exceptions lock_video catches, it leaves
   run() and the task fails; its message is acknowledged *)
LockTransportError(w) ==
    /\ pc[w] = "idle"
    /\ \E m \in Msg :
         /\ msgs[m] > 0
         /\ msgs' = [msgs EXCEPT ![m] = @ - 1]
    /\ result' = [kind |-> "OperationalError", value |-> NULL]
    /\ UNCHANGED nonJobVars
    /\ UNCHANGED <<rowVars, rowLock, sent, redelivered, pc, request, local,
                   exc, locks>>

(* lock_video: video.change_status(PROCESS) and the commit of @atomic *)
LockVideoCommit(w) ==
    /\ pc[w] = "lock_commit"
    /\ status' = PROCESS
    /\ written' = UpdateFields({})
    /\ rowLock' = NULL
    /\ pc' = [pc EXCEPT ![w] = "process_video"]
    /\ UNCHANGED nonJobVars
    /\ UNCHANGED <<task_id, basename, error, metadata, duration, msgs, sent,
                   redelivered, request, local, exc, result>>

LockCommit(w) == LockVideoCommit(w) /\ UNCHANGED locks

(* run: meta = self.process_video(video) returned *)
ProcessReturn(w) ==
    /\ pc[w] = "process_video"
    /\ \E m \in Metas :
         local' = [local EXCEPT ![w] = [status |-> DONE, error |-> NULL, meta |-> m]]
    /\ pc' = [pc EXCEPT ![w] = "unlock_video"]
    /\ UNCHANGED nonJobVars
    /\ UNCHANGED <<rowVars, rowLock, msgs, sent, redelivered, request,
                   exc, result, locks>>

(* run: except Exception as e *)
ProcessRaise(w) ==
    /\ pc[w] = "process_video"
    /\ \E e \in Exceptions :
         local' = [local EXCEPT
             ![w] = [status |-> ERROR, error |-> Repr(e), meta |-> NULL]]
    /\ pc' = [pc EXCEPT ![w] = "unlock_video"]
    /\ UNCHANGED nonJobVars
    /\ UNCHANGED <<rowVars, rowLock, msgs, sent, redelivered, request,
                   exc, result, locks>>

(* run: except SoftTimeLimitExceeded, raise self.retry(countdown=10) *)
ProcessShutdown(w) ==
    /\ pc[w] = "process_video"
    /\ local' = [local EXCEPT
           ![w] = [status |-> QUEUED, error |-> Repr(SoftTimeLimitExceeded),
                   meta |-> NULL]]
    /\ IF CanRetry(request[w])
       THEN /\ msgs' = Publish(msgs, Retried(request[w]))
            /\ exc' = [exc EXCEPT ![w] = "Retry"]
       ELSE /\ msgs' = msgs
            /\ exc' = [exc EXCEPT ![w] = "MaxRetriesExceededError"]
    /\ pc' = [pc EXCEPT ![w] = "unlock_video"]
    /\ UNCHANGED nonJobVars
    /\ UNCHANGED <<rowVars, rowLock, sent, redelivered, request,
                   result, locks>>

(* unlock_video: select_for_update(video_id, PROCESS) succeeded *)
UnlockSelect(w) ==
    /\ pc[w] = "unlock_video"
    /\ SelectForUpdate(request[w], PROCESS) = "ok"
    /\ rowLock' = w
    /\ pc' = [pc EXCEPT ![w] = "unlock_commit"]
    /\ UNCHANGED nonJobVars
    /\ UNCHANGED <<rowVars, msgs, sent, redelivered, request, local,
                   exc, result, locks>>

(* unlock_video: select_for_update raised, raise RuntimeError *)
UnlockFail(w) ==
    /\ pc[w] = "unlock_video"
    /\ SelectForUpdate(request[w], PROCESS) # "ok"
    /\ result' = [kind |-> "RuntimeError", value |-> NULL]
    /\ pc' = [pc EXCEPT ![w] = "idle"]
    /\ request' = [request EXCEPT ![w] = NoRequest]
    /\ local' = [local EXCEPT ![w] = NoLocal]
    /\ exc' = [exc EXCEPT ![w] = "none"]
    /\ UNCHANGED nonJobVars
    /\ UNCHANGED <<rowVars, rowLock, msgs, sent, redelivered, locks>>

(* unlock_video: video.change_status(status, error=error, metadata=meta),  *)
(* the commit, and the end of run                                          *)
UnlockCommit(w) ==
    /\ pc[w] = "unlock_commit"
    /\ status' = local[w].status
    /\ error' = local[w].error
    /\ metadata' = local[w].meta
    /\ written' = UpdateFields({"error", "metadata"})
    /\ rowLock' = NULL
    /\ result' = IF exc[w] = "none"
                  THEN [kind |-> "return", value |-> local[w].error]
                  ELSE [kind |-> exc[w], value |-> NULL]
    /\ pc' = [pc EXCEPT ![w] = "idle"]
    /\ request' = [request EXCEPT ![w] = NoRequest]
    /\ local' = [local EXCEPT ![w] = NoLocal]
    /\ exc' = [exc EXCEPT ![w] = "none"]
    /\ UNCHANGED nonJobVars
    /\ UNCHANGED <<task_id, basename, duration, msgs, sent, redelivered, locks>>

(* task_acks_late with task_reject_on_worker_lost: the process running the
   task is killed; its open transaction is rolled back and the broker puts
   the unacknowledged message back on the queue *)
WorkerLost(w) ==
    /\ pc[w] # "idle"
    /\ sent + redelivered < MaxPublish
    /\ redelivered' = redelivered + 1
    /\ msgs' = Publish(msgs, request[w])
    /\ rowLock' = IF rowLock = w THEN NULL ELSE rowLock
    /\ pc' = [pc EXCEPT ![w] = "idle"]
    /\ request' = [request EXCEPT ![w] = NoRequest]
    /\ local' = [local EXCEPT ![w] = NoLocal]
    /\ exc' = [exc EXCEPT ![w] = "none"]
    /\ UNCHANGED nonJobVars
    /\ UNCHANGED <<rowVars, sent, result, locks>>

(***************************************************************************)
(* The resumable strategy (strategy.py) on one basename.                   *)
(***************************************************************************)

(* how many times Strategy.__call__ is entered for the basename *)
MaxRuns == 3

(* chunk file names the Splitter may list in sources/source-video.m3u8 *)
Chunks == {"c1.ts", "c2.ts"}

(* lines of an m3u8 playlist that start with '#' *)
CommentLines == {"#EXTM3U", "#EXTINF:10,"}

(* the playlists the Splitter may write, as sequences of lines *)
Playlists ==
    { <<"#EXTM3U">>,
      <<"#EXTM3U", "#EXTINF:10,", "c1.ts">>,
      <<"#EXTM3U", "c1.ts", "#EXTINF:10,", "c2.ts">>,
      <<"c2.ts", "#EXTINF:10,", "c1.ts">> }

(* line.startswith('#') *)
StartsWithHash(line) == line \in CommentLines

(* chunk names in alphabetical order *)
Alphabetical == <<"c1.ts", "c2.ts">>

(* get_segment_list that returns the chunk names sorted *)
SegmentListSorted(lines) ==
    SelectSeq(Alphabetical,
              LAMBDA c : \E i \in 1..Len(lines) : lines[i] = c)

(* the loop of get_segment_list over content.splitlines() *)
SegmentList(lines) == SelectSeq(lines, LAMBDA line : ~StartsWithHash(line))

(* ResumableStrategy.source_metadata, profile_file, split_metadata,
   video_playlist_file and the ffconcat file of write_concat_file *)
SourceMetadata == "sources/source.json"
ProfileFile == "sources/profile.json"
SplitMetadata == "sources/split.json"
VideoPlaylistFile == "sources/source-video.m3u8"
ConcatFile == "results/concat.ffconcat"

(* self.results.file(filename) *)
ResultFile(c) == "results/" \o c

(* ResumableStrategy.metadata_file: the last path part followed by .json *)
MetadataFile(f) == f \o ".json"

Sentinel(c) == MetadataFile(ResultFile(c))

Sentinels == {SourceMetadata, ProfileFile, SplitMetadata} \cup {Sentinel(c) : c \in Chunks}

Files == Sentinels \cup {VideoPlaylistFile, ConcatFile} \cup {ResultFile(c) : c \in Chunks}

(* file contents: kind and data *)
Absent == [kind |-> "absent", data |-> <<>>]
Empty == [kind |-> "empty", data |-> <<>>]

(* json.dumps(asdict(meta)) and json.loads + from_native *)
Dumps(v) == [kind |-> "json", data |-> <<v>>]
Loads(content) == IF content.kind = "json" THEN content.data[1] ELSE "JSONDecodeError"

(* the m3u8 playlist the Splitter writes, the chunk the Transcoder writes,
   the text write_concat_file joins *)
M3u8(p) == [kind |-> "m3u8", data |-> p]
Ts == [kind |-> "ts", data |-> <<>>]
Ffconcat(segs) ==
    [kind |-> "ffconcat",
     data |-> <<"ffconcat version 1.0">> \o
              [i \in 1..Len(segs) |-> "file '" \o segs[i] \o "'"]]

(* the steps of process() that keep their result in a sentinel of sources/ *)
GuardedSteps == {"analyze_source", "select_profile", "split"}

(* Workspace.exists *)
Exists(f) == ws[f].kind # "absent"

InitStrategy ==
    /\ ws = [f \in Files |-> Absent]
    /\ wsRoot = FALSE
    /\ store = "absent"
    /\ spc = "idle"
    /\ step = "check"
    /\ pending = Absent
    /\ segments = <<>>
    /\ idx = 0
    /\ transcoded = [c \in Chunks |-> 0]
    /\ processed = {}
    /\ kept = {}
    /\ runs = 0
    /\ outcome = "none"
    /\ effects = <<>>
    /\ invoked = [s \in GuardedSteps |-> 0]
    /\ values = [s \in GuardedSteps |-> NULL]

(* an initialize() that starts every run on an empty temp tree *)
StrategyCallFresh ==
    /\ spc = "idle"
    /\ runs < MaxRuns
    /\ runs' = runs + 1
    /\ wsRoot' = TRUE
    /\ ws' = [f \in Files |-> Absent]
    /\ store' = IF store = "absent" THEN "empty" ELSE store
    /\ spc' = "analyze_source"
    /\ step' = "check"
    /\ outcome' = "running"
    /\ UNCHANGED <<pending, segments, idx, transcoded, processed, kept>>
    /\ effects' = <<>>
    /\ invoked' = [s \in GuardedSteps |-> 0]
    /\ values' = [s \in GuardedSteps |-> NULL]
    /\ UNCHANGED nonStrategyVars

(* Strategy.__call__ entering the context: initialize() creates the temp
   tree with sources/ and results/, and the store tree *)
StrategyCall ==
    /\ spc = "idle"
    /\ runs < MaxRuns
    /\ runs' = runs + 1
    /\ wsRoot' = TRUE
    /\ store' = IF store = "absent" THEN "empty" ELSE store
    /\ spc' = "analyze_source"
    /\ step' = "check"
    /\ outcome' = "running"
    /\ UNCHANGED <<ws, pending, segments, idx, transcoded, processed, kept>>
    /\ effects' = <<>>
    /\ invoked' = [s \in GuardedSteps |-> 0]
    /\ values' = [s \in GuardedSteps |-> NULL]
    /\ UNCHANGED nonStrategyVars

(* an exception leaves process(): __exit__ calls cleanup(is_error=True),
   which deletes the store tree and keeps the temp tree *)
Raised ==
    /\ store' = "absent"
    /\ spc' = "idle"
    /\ step' = "check"
    /\ pending' = Absent
    /\ segments' = <<>>
    /\ idx' = 0
    /\ outcome' = "raised"
    /\ UNCHANGED <<wsRoot, runs>>

(* process() that calls split before select_profile *)
GotoSplitFirst(next) ==
    /\ spc' = CASE next = "select_profile" -> "split"
                [] next = "get_segment_list" -> "select_profile"
                [] next = "split" -> "get_segment_list"
                [] OTHER -> next
    /\ step' = "check"
    /\ pending' = Absent
    /\ UNCHANGED <<wsRoot, store, segments, idx, runs, outcome>>

(* the step is done, the pipeline goes on with the next one *)
Goto(next) ==
    /\ spc' = next
    /\ step' = "check"
    /\ pending' = Absent
    /\ UNCHANGED <<wsRoot, store, segments, idx, runs, outcome>>

(* the step has its value and calls ws.write with it *)
CallWrite(content) ==
    /\ pending' = content
    /\ step' = "write"
    /\ UNCHANGED <<wsRoot, store, spc, segments, idx, runs, outcome>>

(* an I/O error, a failing ffmpeg or SoftTimeLimitExceeded, at any point
   between initialize() and the end of process() *)
StrategyRaise ==
    /\ spc # "idle"
    /\ Raised
    /\ UNCHANGED <<ws, transcoded, processed, kept>>
    /\ UNCHANGED effects
    /\ UNCHANGED <<invoked, values>>
    /\ UNCHANGED nonStrategyVars

AnalyzeSource ==
    /\ spc = "analyze_source" /\ step = "check"
    /\ IF Exists(SourceMetadata)
       THEN /\ IF Loads(ws[SourceMetadata]) = "JSONDecodeError"
               THEN Raised /\ UNCHANGED values
               ELSE /\ Goto("select_profile")
                    /\ values' = [values EXCEPT ![spc] = Loads(ws[SourceMetadata])]
            /\ UNCHANGED invoked
       ELSE /\ invoked' = [invoked EXCEPT ![spc] = @ + 1]
            /\ \E m \in Metas :
                  /\ values' = [values EXCEPT ![spc] = m]
                  /\ CallWrite(Dumps(m))
    /\ UNCHANGED <<ws, transcoded, processed, kept>>
    /\ UNCHANGED effects
    /\ UNCHANGED nonStrategyVars

SelectProfile ==
    /\ spc = "select_profile" /\ step = "check"
    /\ IF Exists(ProfileFile)
       THEN /\ IF Loads(ws[ProfileFile]) = "JSONDecodeError"
               THEN Raised /\ UNCHANGED values
               ELSE /\ Goto("split")
                    /\ values' = [values EXCEPT ![spc] = Loads(ws[ProfileFile])]
            /\ UNCHANGED invoked
       ELSE /\ invoked' = [invoked EXCEPT ![spc] = @ + 1]
            /\ values' = [values EXCEPT ![spc] = "profile"]
            /\ CallWrite(Dumps("profile"))
    /\ UNCHANGED <<ws, transcoded, processed, kept>>
    /\ UNCHANGED effects
    /\ UNCHANGED nonStrategyVars

(* split: with no split.json the Splitter writes the playlist and the source
   chunks and returns the metadata of what it wrote *)
Split ==
    /\ spc = "split" /\ step = "check"
    /\ IF Exists(SplitMetadata)
       THEN /\ IF Loads(ws[SplitMetadata]) = "JSONDecodeError"
               THEN Raised /\ UNCHANGED values
               ELSE /\ Goto("get_segment_list")
                    /\ values' = [values EXCEPT ![spc] = Loads(ws[SplitMetadata])]
            /\ UNCHANGED <<ws, effects, invoked>>
       ELSE \E p \in Playlists :
               /\ ws' = [ws EXCEPT ![VideoPlaylistFile] = M3u8(p)]
               /\ effects' = Append(effects, VideoPlaylistFile)
               /\ invoked' = [invoked EXCEPT ![spc] = @ + 1]
               /\ values' = [values EXCEPT ![spc] = "split_meta"]
               /\ CallWrite(Dumps("split_meta"))
    /\ UNCHANGED <<transcoded, processed, kept>>
    /\ UNCHANGED nonStrategyVars

(* the Splitter fails after it has written a playlist *)
SplitInterrupted ==
    /\ spc = "split" /\ step = "check"
    /\ ~Exists(SplitMetadata)
    /\ \E p \in Playlists : ws' = [ws EXCEPT ![VideoPlaylistFile] = M3u8(p)]
    /\ Raised
    /\ UNCHANGED <<transcoded, processed, kept>>
    /\ effects' = Append(effects, VideoPlaylistFile)
    /\ invoked' = [invoked EXCEPT !["split"] = @ + 1]
    /\ UNCHANGED values
    /\ UNCHANGED nonStrategyVars

(* get_segment_list, and process() raising "no segments" for an empty list *)
GetSegmentList ==
    /\ spc = "get_segment_list"
    /\ IF ~Exists(VideoPlaylistFile) \/ SegmentList(ws[VideoPlaylistFile].data) = <<>>
       THEN Raised
       ELSE /\ segments' = SegmentList(ws[VideoPlaylistFile].data)
            /\ idx' = 1
            /\ spc' = "process_segment"
            /\ UNCHANGED <<wsRoot, store, step, pending, runs, outcome>>
    /\ UNCHANGED <<ws, transcoded, processed, kept>>
    /\ UNCHANGED effects
    /\ UNCHANGED <<invoked, values>>
    /\ UNCHANGED nonStrategyVars

(* process_segment(c) returns: the loop of process() takes the next chunk,
   or merge() starts with write_concat_file *)
SegmentDone(c) ==
    /\ processed' = processed \cup {c}
    /\ kept' = kept \cup {c}
    /\ IF idx < Len(segments)
       THEN /\ idx' = idx + 1
            /\ step' = "check"
            /\ pending' = Absent
            /\ UNCHANGED spc
       ELSE /\ spc' = "merge"
            /\ step' = "write"
            /\ pending' = Ffconcat(segments)
            /\ UNCHANGED idx
    /\ UNCHANGED <<wsRoot, store, segments, runs, outcome>>

(* process_segment that does not look for the sentinel *)
ProcessSegmentAgain ==
    /\ spc = "process_segment" /\ step = "check"
    /\ transcoded' = [transcoded EXCEPT ![segments[idx]] = @ + 1]
    /\ ws' = [ws EXCEPT ![ResultFile(segments[idx])] = Ts]
    /\ \E m \in Metas : CallWrite(Dumps(m))
    /\ UNCHANGED <<processed, kept>>
    /\ effects' = Append(effects, ResultFile(segments[idx]))
    /\ UNCHANGED <<invoked, values>>
    /\ UNCHANGED nonStrategyVars

ProcessSegment ==
    /\ spc = "process_segment" /\ step = "check"
    /\ IF Exists(Sentinel(segments[idx]))
       THEN /\ IF Loads(ws[Sentinel(segments[idx])]) = "JSONDecodeError"
               THEN Raised /\ UNCHANGED <<processed, kept>>
               ELSE SegmentDone(segments[idx])
            /\ UNCHANGED <<ws, transcoded, effects>>
       ELSE /\ transcoded' = [transcoded EXCEPT ![segments[idx]] = @ + 1]
            /\ ws' = [ws EXCEPT ![ResultFile(segments[idx])] = Ts]
            /\ effects' = Append(effects, ResultFile(segments[idx]))
            /\ \E m \in Metas : CallWrite(Dumps(m))
            /\ UNCHANGED <<processed, kept>>
    /\ UNCHANGED <<invoked, values>>
    /\ UNCHANGED nonStrategyVars

(* the Transcoder fails, with or without a truncated chunk left behind *)
TranscoderRaise ==
    /\ spc = "process_segment" /\ step = "check"
    /\ ~Exists(Sentinel(segments[idx]))
    /\ transcoded' = [transcoded EXCEPT ![segments[idx]] = @ + 1]
    /\ \E out \in {ws[ResultFile(segments[idx])], Empty} :
           /\ ws' = [ws EXCEPT ![ResultFile(segments[idx])] = out]
           /\ effects' = IF out = ws[ResultFile(segments[idx])]
                         THEN effects
                         ELSE Append(effects, ResultFile(segments[idx]))
    /\ Raised
    /\ UNCHANGED <<processed, kept>>
    /\ UNCHANGED <<invoked, values>>
    /\ UNCHANGED nonStrategyVars

(* the file the current step passes to ws.write *)
StepFile ==
    CASE spc = "analyze_source" -> SourceMetadata
      [] spc = "select_profile" -> ProfileFile
      [] spc = "split" -> SplitMetadata
      [] spc = "process_segment" -> Sentinel(segments[idx])
      [] spc = "merge" -> ConcatFile

(* FileSystemWorkspace.write: open(path, 'w') creates or truncates the file *)
WsWriteOpen ==
    /\ step = "write"
    /\ ws' = [ws EXCEPT ![StepFile] = Empty]
    /\ step' = "fill"
    /\ UNCHANGED <<wsRoot, store, spc, pending, segments, idx, transcoded,
                   processed, kept, runs, outcome>>
    /\ effects' = Append(effects, StepFile)
    /\ UNCHANGED <<invoked, values>>
    /\ UNCHANGED nonStrategyVars

(* FileSystemWorkspace.write: f.write(content) and close; the step returns *)
WsWriteClose ==
    /\ step = "fill"
    /\ ws' = [ws EXCEPT ![StepFile] = pending]
    /\ CASE spc = "analyze_source" -> Goto("select_profile") /\ UNCHANGED <<processed, kept>>
         [] spc = "select_profile" -> Goto("split") /\ UNCHANGED <<processed, kept>>
         [] spc = "split" -> Goto("get_segment_list") /\ UNCHANGED <<processed, kept>>
         [] spc = "process_segment" -> SegmentDone(segments[idx])
         [] spc = "merge" -> Goto("segmentor") /\ UNCHANGED <<processed, kept>>
    /\ UNCHANGED transcoded
    /\ UNCHANGED effects
    /\ UNCHANGED <<invoked, values>>
    /\ UNCHANGED nonStrategyVars

(* merge: the Segmentor writes the HLS output to the store tree *)
MergeSegmentor ==
    /\ spc = "segmentor"
    /\ store' = "hls"
    /\ spc' = "exit"
    /\ UNCHANGED <<ws, wsRoot, step, pending, segments, idx, transcoded,
                   processed, kept, runs, outcome>>
    /\ effects' = Append(effects, "hls")
    /\ UNCHANGED <<invoked, values>>
    /\ UNCHANGED nonStrategyVars

(* cleanup(is_error=False) that leaves the temp tree in place *)
StrategyReturnKeepsTemp ==
    /\ spc = "exit"
    /\ spc' = "idle"
    /\ step' = "check"
    /\ pending' = Absent
    /\ segments' = <<>>
    /\ idx' = 0
    /\ outcome' = "returned"
    /\ UNCHANGED <<ws, wsRoot, kept, store, transcoded, processed, runs>>
    /\ UNCHANGED effects
    /\ UNCHANGED <<invoked, values>>
    /\ UNCHANGED nonStrategyVars

(* process() has returned: __exit__ calls cleanup(is_error=False), which
   deletes the temp tree *)
StrategyReturn ==
    /\ spc = "exit"
    /\ ws' = [f \in Files |-> Absent]
    /\ wsRoot' = FALSE
    /\ kept' = {}
    /\ spc' = "idle"
    /\ step' = "check"
    /\ pending' = Absent
    /\ segments' = <<>>
    /\ idx' = 0
    /\ outcome' = "returned"
    /\ UNCHANGED <<store, transcoded, processed, runs>>
    /\ effects' = Append(effects, "rmtree")
    /\ UNCHANGED <<invoked, values>>
    /\ UNCHANGED nonStrategyVars

(***************************************************************************)
(* The encoder run (transcoding/transcoder.py, Processor.run).             *)
(***************************************************************************)

(* how many [error] lines ffmpeg may have had captured in one run *)
MaxErrorLines == 2

(* exit statuses of the ffmpeg process: killed by a signal, success, errors *)
ReturnCodes == {-9, 0, 1, 2}

(* the lines of stderr that match [error] *)
ErrorLines == {"[error] a", "[error] b"}

(* the error text ff.run() hands back: the captured [error] lines, in the
   order they were emitted; none of them is the empty text *)
ErrorOutputs ==
    UNION {[1..n -> ErrorLines] : n \in 0..MaxErrorLines}

Outputs == {"", "output"}

NoFfReturn == [return_code |-> 0, output |-> "", error |-> <<>>]
NoEncoded == [kind |-> "none", args |-> <<>>]

InitEncoder ==
    /\ ffReturn = NoFfReturn
    /\ epc = "idle"
    /\ encoded = NoEncoded

(* Processor.run with the old test 'if error or return_code != 0' *)
RunRaisesOnErrorText(ff) ==
    IF ff.error # <<>> \/ ff.return_code # 0
    THEN [kind |-> "RuntimeError",
          args |-> IF ff.error # <<>>
                   THEN ff.error
                   ELSE <<"invalid ffmpeg return code " \o ToString(ff.return_code)>>]
    ELSE [kind |-> "return", args |-> <<>>]

(* Processor.run after ff.run(): raise on a non-zero return code with the
   captured error text, or with the return code when no text was captured *)
Run(ff) ==
    IF ff.return_code # 0
    THEN [kind |-> "RuntimeError",
          args |-> IF ff.error # <<>>
                   THEN ff.error
                   ELSE <<"invalid ffmpeg return code " \o ToString(ff.return_code)>>]
    ELSE [kind |-> "return", args |-> <<>>]

(* return_code, output, error = ff.run() *)
FfRun ==
    /\ epc = "idle"
    /\ \E rc \in ReturnCodes : \E out \in Outputs : \E err \in ErrorOutputs :
         ffReturn' = [return_code |-> rc, output |-> out, error |-> err]
    /\ epc' = "ran"
    /\ UNCHANGED encoded
    /\ UNCHANGED nonEncoderVars

(* the rest of Processor.run *)
ProcessorRun ==
    /\ epc = "ran"
    /\ encoded' = Run(ffReturn)
    /\ epc' = "done"
    /\ UNCHANGED ffReturn
    /\ UNCHANGED nonEncoderVars

(***************************************************************************)
(* The worker supervisor (celery.py).                                      *)
(***************************************************************************)

(* how many worker_shutting_down events the supervisor gets *)
MaxShutdowns == 2

(* os.getpid() of the supervisor, and the worker processes it forks *)
MasterPid == "master"
Children == {"c1", "c2"}
Procs == {MasterPid} \cup Children

(* the process group the supervisor is started in *)
ParentGroup == "shell"
NoGroup == "none"

SIGUSR1 == "SIGUSR1"

InitSupervisor ==
    /\ pgid = [p \in Procs |-> IF p = MasterPid THEN ParentGroup ELSE NoGroup]
    /\ alive = {}
    /\ delivered = [p \in Procs |-> 0]
    /\ kills = <<>>
    /\ shutdowns = 0
    /\ handler = "none"
    /\ logged = 0

(* the running processes of process group g *)
Group(g) == {p \in alive \cup {MasterPid} : pgid[p] = g}

(* os.killpg(g, sig): ESRCH when no process is in group g *)
Killpg(g) == IF Group(g) = {} THEN "ProcessLookupError" ELSE "ok"

(* a handler whose except clause does not match the error *)
CaughtNothing(e) == FALSE

(* except ProcessLookupError *)
Caught(e) == e = "ProcessLookupError"

(* worker_init: os.setpgrp() makes the supervisor the leader of a new group *)
SetSameProcessGroup ==
    /\ pgid[MasterPid] # MasterPid
    /\ pgid' = [pgid EXCEPT ![MasterPid] = MasterPid]
    /\ UNCHANGED <<alive, delivered, kills, shutdowns, handler, logged>>
    /\ UNCHANGED nonSupervisorVars

(* the pool forks a worker process, which inherits the supervisor's group *)
Fork(c) ==
    /\ c \notin alive
    /\ alive' = alive \cup {c}
    /\ pgid' = [pgid EXCEPT ![c] = pgid[MasterPid]]
    /\ delivered' = [delivered EXCEPT ![c] = 0]
    /\ UNCHANGED <<kills, shutdowns, handler, logged>>
    /\ UNCHANGED nonSupervisorVars

(* a worker process ends *)
Exit(c) ==
    /\ c \in alive
    /\ alive' = alive \ {c}
    /\ pgid' = [pgid EXCEPT ![c] = NoGroup]
    /\ UNCHANGED <<delivered, kills, shutdowns, handler, logged>>
    /\ UNCHANGED nonSupervisorVars

(* worker_shutting_down: os.killpg(os.getpid(), signal.SIGUSR1) inside
   try / except ProcessLookupError: logger.error(...) *)
SendTermToChildren ==
    /\ shutdowns < MaxShutdowns
    /\ shutdowns' = shutdowns + 1
    /\ kills' = Append(kills, [pgid |-> MasterPid, sig |-> SIGUSR1])
    /\ delivered' = [p \in Procs |->
                       IF p \in Group(MasterPid)
                       THEN delivered[p] + 1 ELSE delivered[p]]
    /\ logged' = IF Killpg(MasterPid) # "ok" /\ Caught(Killpg(MasterPid))
                 THEN logged + 1 ELSE logged
    /\ handler' = IF Killpg(MasterPid) = "ok" \/ Caught(Killpg(MasterPid))
                  THEN "returned" ELSE Killpg(MasterPid)
    /\ UNCHANGED <<pgid, alive>>
    /\ UNCHANGED nonSupervisorVars

(***************************************************************************)
(* Saving a Video (signals.py, helpers.py).                                *)
(***************************************************************************)

(* how many times already existing rows are saved *)
MaxSaves == 2

(* how many tasks apply_async publishes at most *)
MaxQueue == 3

Videos == {"v1", "v2"}

NoRow == [state |-> "none", status |-> CREATED, task_id |-> NULL]

(* the id apply_async gives to the n-th task it publishes *)
FreshTaskId(n) == "task-" \o ToString(n)

InitSave ==
    /\ videos = [v \in Videos |-> NoRow]
    /\ onCommit = [v \in Videos |-> 0]
    /\ applied = [v \in Videos |-> 0]
    /\ queue = <<>>
    /\ saves = 0

(* a post_save handler that does not look at created *)
PostSaveAlways(created, n) == n + 1

(* signals.send_transcode_task: the callbacks registered for the instance
   after a post_save signal, n being their number before it *)
PostSave(created, n) == IF ~created THEN n ELSE n + 1

(* Video.objects.create(...) in a transaction: INSERT, then post_save with
   created=True *)
VideoCreate(v) ==
    /\ videos[v].state = "none"
    /\ videos' = [videos EXCEPT ![v].state = "inserted"]
    /\ onCommit' = [onCommit EXCEPT ![v] = PostSave(TRUE, @)]
    /\ UNCHANGED <<applied, queue, saves>>
    /\ UNCHANGED nonSaveVars

(* video.save() of a row that exists: UPDATE, then post_save with
   created=False *)
VideoSave(v) ==
    /\ videos[v].state \in {"inserted", "committed"}
    /\ saves < MaxSaves
    /\ saves' = saves + 1
    /\ onCommit' = [onCommit EXCEPT ![v] = PostSave(FALSE, @)]
    /\ UNCHANGED <<videos, applied, queue>>
    /\ UNCHANGED nonSaveVars

(* the transaction that created the row commits; its callbacks may run *)
Commit(v) ==
    /\ videos[v].state = "inserted"
    /\ videos' = [videos EXCEPT ![v].state = "committed"]
    /\ UNCHANGED <<onCommit, applied, queue, saves>>
    /\ UNCHANGED nonSaveVars

(* the transaction that created the row is rolled back: the row is gone and
   its callbacks are dropped *)
Rollback(v) ==
    /\ videos[v].state = "inserted"
    /\ videos' = [videos EXCEPT ![v].state = "rolled_back"]
    /\ onCommit' = [onCommit EXCEPT ![v] = 0]
    /\ UNCHANGED <<applied, queue, saves>>
    /\ UNCHANGED nonSaveVars

(* a callback runs helpers.send_transcode_task(instance): apply_async
   publishes the task, then change_status(QUEUED, task_id=result.task_id)
   saves the row, which sends post_save with created=False *)
OnCommitSend(v) ==
    /\ videos[v].state = "committed"
    /\ onCommit[v] > 0
    /\ Len(queue) < MaxQueue
    /\ applied' = [applied EXCEPT ![v] = @ + 1]
    /\ queue' = Append(queue, [task_id |-> FreshTaskId(Len(queue) + 1),
                               args |-> v])
    /\ videos' = [videos EXCEPT ![v].status = QUEUED,
                                ![v].task_id = FreshTaskId(Len(queue) + 1)]
    /\ onCommit' = [onCommit EXCEPT ![v] = PostSave(FALSE, @ - 1)]
    /\ UNCHANGED saves
    /\ UNCHANGED nonSaveVars

(* a callback runs helpers.send_transcode_task(instance) and apply_async
   raises (the broker is unreachable): change_status is not reached *)
OnCommitSendFails(v) ==
    /\ videos[v].state = "committed"
    /\ onCommit[v] > 0
    /\ applied' = [applied EXCEPT ![v] = @ + 1]
    /\ onCommit' = [onCommit EXCEPT ![v] = @ - 1]
    /\ UNCHANGED <<videos, queue, saves>>
    /\ UNCHANGED nonSaveVars

(***************************************************************************)
(* The workspace (transcoding/workspace.py).                               *)
(***************************************************************************)

(* A path is kept as the sequence of its pieces, every "/" being a piece of
   its own: /ws/a/ is <<"/", "ws", "/", "a", "/">>. *)
Slash == "/"

(* the URIs workspace.init is called with, as urlparse splits them:
   file:///ws, dav://host/ws/, davs://host, davs://host//ws/./tmp/,
   ftp://host/ws *)
Bases ==
    { [scheme |-> "file", netloc |-> "", path |-> <<"/", "ws">>],
      [scheme |-> "dav", netloc |-> "host", path |-> <<"/", "ws", "/">>],
      [scheme |-> "davs", netloc |-> "host", path |-> <<>>],
      [scheme |-> "davs", netloc |-> "host",
       path |-> <<"/", "/", "ws", "/", ".", "/", "tmp", "/">>],
      [scheme |-> "ftp", netloc |-> "host", path |-> <<"/", "ws">>] }

(* str.rstrip('/') and str.lstrip('/') *)
RECURSIVE RStrip(_)
RStrip(p) ==
    IF p # <<>> /\ p[Len(p)] = Slash THEN RStrip(SubSeq(p, 1, Len(p) - 1))
    ELSE p

RECURSIVE LStrip(_)
LStrip(p) ==
    IF p # <<>> /\ p[1] = Slash THEN LStrip(Tail(p)) ELSE p

(* Path(p).parts of a relative path: its names, without the separators,
   the empty names and the "." names *)
PathParts(p) == SelectSeq(p, LAMBDA x : x # Slash /\ x # "." /\ x # "")

(* '/'.join(parts) *)
RECURSIVE Join(_)
Join(parts) ==
    IF parts = <<>> THEN <<>>
    ELSE IF Len(parts) = 1 THEN parts
    ELSE <<parts[1], Slash>> \o Join(Tail(parts))

(* the resources Collection and File, made of their parts *)
Collection(parts) == [kind |-> "Collection", parts |-> parts]
File(parts) == [kind |-> "File", parts |-> parts]

(* Resource.trailing_slash *)
TrailingSlash(r) == IF r.kind = "Collection" THEN <<Slash>> ELSE <<>>

(* Workspace.__init__: the uri with the slashes at the end of its path
   removed *)
Workspace(kind, uri) ==
    [kind |-> kind, uri |-> [uri EXCEPT !.path = RStrip(uri.path)]]

(* workspace.init with dav and davs both taken to http *)
InitWorkspaceOverHttp(b) ==
    IF b.scheme = "file" THEN Workspace("FileSystemWorkspace", b)
    ELSE IF b.scheme \in {"dav", "davs"}
    THEN Workspace("WebDAVWorkspace", [b EXCEPT !.scheme = "http"])
    ELSE [kind |-> "ValueError", uri |-> b]

(* workspace.init *)
InitWorkspace(b) ==
    IF b.scheme = "file" THEN Workspace("FileSystemWorkspace", b)
    ELSE IF b.scheme = "dav"
    THEN Workspace("WebDAVWorkspace", [b EXCEPT !.scheme = "http"])
    ELSE IF b.scheme = "davs"
    THEN Workspace("WebDAVWorkspace", [b EXCEPT !.scheme = "https"])
    ELSE [kind |-> "ValueError", uri |-> b]

(* get_absolute_uri that appends the trailing slash to the base URI too *)
GetAbsoluteUriSlashAlways(w, r) ==
    [w.uri EXCEPT !.path =
        <<Slash>> \o Join(PathParts(LStrip(w.uri.path)) \o r.parts)
        \o TrailingSlash(r)]

(* Workspace.get_absolute_uri *)
GetAbsoluteUri(w, r) ==
    LET path == Join(PathParts(LStrip(w.uri.path)) \o r.parts)
    IN  IF path = <<>> THEN w.uri
        ELSE [w.uri EXCEPT !.path = <<Slash>> \o path \o TrailingSlash(r)]

(* the paths below the workspace root that are used, and what a path may
   hold: nothing, a directory, or a file with its content *)
Paths == {<<>>, <<"a">>, <<"a", "b">>, <<"a", "f">>}
Contents == {"x", "y"}
Collections == {Collection(p) : p \in {<<>>, <<"a">>, <<"a", "b">>}}
WorkspaceFiles == {File(p) : p \in {<<"a">>, <<"a", "f">>}}

(* the relative paths ensure_collection is called with: "", "/a", "a/",
   "/a/b", "a//b/" *)
EnsurePaths ==
    { <<>>, <<"/", "a">>, <<"a", "/">>, <<"/", "a", "/", "b">>,
      <<"a", "/", "/", "b", "/">> }

Parent(p) == SubSeq(p, 1, Len(p) - 1)

(* p is q or lies below q *)
Below(p, q) == Len(q) <= Len(p) /\ SubSeq(p, 1, Len(q)) = q

(* the backend failing at the k-th step of an operation: 403 stands for a
   refusal (EACCES locally), 500 for a server error *)
NoFault == [at |-> 0, status |-> 0]
Faults == {NoFault} \cup [at : 1..3, status : {403, 500}]
FaultAt(fault, k) == IF fault.at = k THEN fault.status ELSE 0

NOT_FOUND == 404
METHOD_NOT_ALLOWED == 405

(* Response.raise_for_status raises HTTPError *)
RaiseForStatus(st) == 400 <= st /\ st < 600

(* the server's answer to MKCOL: 405 on an existing collection, 409 on an
   existing resource that is not a collection or on a missing parent *)
MkcolStatus(t, p, f) ==
    IF f # 0 THEN f
    ELSE IF t[p] = "dir" THEN METHOD_NOT_ALLOWED
    ELSE IF t[p] # "none" THEN 409
    ELSE IF p # <<>> /\ t[Parent(p)] # "dir" THEN 409
    ELSE 201

(* the server's answer to DELETE, HEAD, GET and PUT *)
DeleteStatus(t, p, f) ==
    IF f # 0 THEN f ELSE IF t[p] = "none" THEN NOT_FOUND ELSE 204

HeadStatus(t, p, f) ==
    IF f # 0 THEN f ELSE IF t[p] = "none" THEN NOT_FOUND ELSE 200

GetStatus(t, p, f) ==
    IF f # 0 THEN f
    ELSE IF t[p] = "none" THEN NOT_FOUND
    ELSE IF t[p] = "dir" THEN 403
    ELSE 200

PutStatus(t, p, f) ==
    IF f # 0 THEN f
    ELSE IF t[p] = "dir" \/ t[Parent(p)] # "dir" THEN 409
    ELSE IF t[p] = "none" THEN 201
    ELSE 204

(* the tree without p and everything below it *)
Removed(t, p) == [q \in Paths |-> IF Below(q, p) THEN "none" ELSE t[q]]

(* the timeout argument of session.request *)
Timeout == <<"VIDEO_CONNECT_TIMEOUT", "VIDEO_REQUEST_TIMEOUT">>
NoTimeout == <<>>

Request(method, uri, timeout, st) ==
    [method |-> method, uri |-> uri, timeout |-> timeout, status |-> st]

(* _mkcol without the exception for 405 *)
MkcolRaisesAlways(st) == RaiseForStatus(st)

(* _mkcol that takes 409 for success as well *)
MkcolRaisesUnlessExists(st) ==
    st \notin {METHOD_NOT_ALLOWED, 409} /\ RaiseForStatus(st)

(* WebDAVWorkspace._mkcol: raise_for_status unless the status is 405 *)
MkcolRaises(st) == st # METHOD_NOT_ALLOWED /\ RaiseForStatus(st)

(* WebDAVWorkspace._mkcol: the URI of the request *)
MkcolUri(w, c) ==
    LET uri == GetAbsoluteUri(w, c)
    IN  IF uri.path = <<>> \/ uri.path[Len(uri.path)] # Slash
        THEN [uri EXCEPT !.path = @ \o <<Slash>>]
        ELSE uri

(* WebDAVWorkspace.create_collection: MKCOL for the root, then for every
   prefix of c.parts, starting with the k-th; the first raise ends it *)
RECURSIVE DavCreateCollection(_, _, _, _, _)
DavCreateCollection(w, t, c, k, fault) ==
    IF k > Len(c.parts)
    THEN [tree |-> t, reqs |-> <<>>, raised |-> "none"]
    ELSE LET p == SubSeq(c.parts, 1, k)
             st == MkcolStatus(t, p, FaultAt(fault, k + 1))
             t2 == IF st = 201 THEN [t EXCEPT ![p] = "dir"] ELSE t
             req == Request("MKCOL", MkcolUri(w, Collection(p)), Timeout, st)
         IN  IF MkcolRaises(st)
             THEN [tree |-> t2, reqs |-> <<req>>, raised |-> "HTTPError"]
             ELSE LET rest == DavCreateCollection(w, t2, c, k + 1, fault)
                  IN  [tree |-> rest.tree, reqs |-> <<req>> \o rest.reqs,
                       raised |-> rest.raised]

(* os.makedirs(path, exist_ok=True), from the k-th prefix of the parts on *)
RECURSIVE Makedirs(_, _, _, _)
Makedirs(t, parts, k, fault) ==
    IF k > Len(parts) THEN [tree |-> t, raised |-> "none"]
    ELSE LET p == SubSeq(parts, 1, k)
         IN  IF t[p] = "dir" THEN Makedirs(t, parts, k + 1, fault)
             ELSE IF t[p] # "none"
             THEN [tree |-> t,
                   raised |-> IF k = Len(parts) THEN "FileExistsError"
                              ELSE "NotADirectoryError"]
             ELSE IF FaultAt(fault, k + 1) # 0
             THEN [tree |-> t, raised |-> "PermissionError"]
             ELSE Makedirs([t EXCEPT ![p] = "dir"], parts, k + 1, fault)

(* os.path.exists: False when os.stat fails, whatever the error *)
OsPathExists(t, p, f) ==
    IF f # 0 THEN "False"
    ELSE IF t[p] = "none" THEN "False" ELSE "True"

Returned(v) == [kind |-> "return", value |-> v]
Raise(e) == [kind |-> "raise", value |-> e]

(* delete_collection that takes 404 for an error like any other *)
DavDeleteResultStrict(st) ==
    IF RaiseForStatus(st) THEN Raise("HTTPError") ELSE Returned("None")

(* WebDAVWorkspace.delete_collection after the DELETE request *)
DavDeleteResult(st) ==
    IF st = NOT_FOUND THEN Returned("None")
    ELSE IF RaiseForStatus(st) THEN Raise("HTTPError")
    ELSE Returned("None")

(* WebDAVWorkspace.exists after the HEAD request *)
DavExistsResult(st) ==
    IF st = NOT_FOUND THEN Returned("False")
    ELSE IF RaiseForStatus(st) THEN Raise("HTTPError")
    ELSE Returned("True")

NoBase == [scheme |-> "", netloc |-> "", path |-> <<>>]
NoWorkspace == [kind |-> "none", uri |-> NoBase]
NoLast ==
    [op |-> "none", r |-> Collection(<<>>), arg |-> <<>>, uri |-> NoBase,
     fault |-> NoFault, before |-> [p \in Paths |-> "none"],
     result |-> [kind |-> "none", value |-> "None"]]

InitWorkspaces ==
    /\ base = NoBase
    /\ wsObj = NoWorkspace
    /\ tree = [p \in Paths |-> "none"]
    /\ last = NoLast
    /\ requests = <<>>

IsWorkspace == wsObj.kind \in {"FileSystemWorkspace", "WebDAVWorkspace"}

(* what an operation on resource r leaves in last *)
Called(op, r, arg, fault, res) ==
    [op |-> op, r |-> r, arg |-> arg, uri |-> GetAbsoluteUri(wsObj, r),
     fault |-> fault, before |-> tree, result |-> res]

(* ws = workspace.init(base) *)
WorkspaceInit(b) ==
    /\ base = NoBase
    /\ base' = b
    /\ wsObj' = InitWorkspace(b)
    /\ last' = [NoLast EXCEPT !.op = "init", !.uri = b,
                  !.result = IF InitWorkspace(b).kind = "ValueError"
                             THEN Raise("ValueError")
                             ELSE Returned(InitWorkspace(b).kind)]
    /\ UNCHANGED <<tree, requests>>
    /\ UNCHANGED nonWorkspaceVars

(* the body shared by create_collection and ensure_collection *)
DoCreateCollection(op, c, arg, fault) ==
    IF wsObj.kind = "WebDAVWorkspace"
    THEN LET out == DavCreateCollection(wsObj, tree, c, 0, fault)
         IN  /\ tree' = out.tree
             /\ requests' = out.reqs
             /\ last' = Called(op, c, arg, fault,
                               IF out.raised # "none" THEN Raise(out.raised)
                               ELSE Returned(IF op = "ensure_collection"
                                             THEN "Collection" ELSE "None"))
    ELSE LET out == Makedirs(tree, c.parts, 0, fault)
         IN  /\ tree' = out.tree
             /\ requests' = <<>>
             /\ last' = Called(op, c, arg, fault,
                               IF out.raised # "none" THEN Raise(out.raised)
                               ELSE Returned(IF op = "ensure_collection"
                                             THEN "Collection" ELSE "None"))

(* ws.create_collection(c) *)
CreateCollection(c, fault) ==
    /\ IsWorkspace
    /\ DoCreateCollection("create_collection", c, <<>>, fault)
    /\ UNCHANGED <<base, wsObj>>
    /\ UNCHANGED nonWorkspaceVars

(* ws.ensure_collection(path) *)
EnsureCollection(path, fault) ==
    /\ IsWorkspace
    /\ DoCreateCollection("ensure_collection",
                          Collection(PathParts(LStrip(path))), path, fault)
    /\ UNCHANGED <<base, wsObj>>
    /\ UNCHANGED nonWorkspaceVars

(* ws.delete_collection(c): DELETE, or shutil.rmtree *)
DeleteCollection(c, fault) ==
    /\ IsWorkspace
    /\ fault.at <= 1
    /\ IF wsObj.kind = "WebDAVWorkspace"
       THEN LET st == DeleteStatus(tree, c.parts, fault.status)
            IN  /\ tree' = IF st = 204 THEN Removed(tree, c.parts) ELSE tree
                /\ requests' = <<Request("DELETE", GetAbsoluteUri(wsObj, c),
                                         Timeout, st)>>
                /\ last' = Called("delete_collection", c, <<>>, fault,
                                  DavDeleteResult(st))
       ELSE /\ tree' = IF fault.status = 0 /\ tree[c.parts] = "dir"
                       THEN Removed(tree, c.parts) ELSE tree
            /\ requests' = <<>>
            /\ last' = Called("delete_collection", c, <<>>, fault,
                              IF fault.status # 0 THEN Raise("PermissionError")
                              ELSE IF tree[c.parts] = "none"
                              THEN Returned("None")
                              ELSE IF tree[c.parts] # "dir"
                              THEN Raise("NotADirectoryError")
                              ELSE Returned("None"))
    /\ UNCHANGED <<base, wsObj>>
    /\ UNCHANGED nonWorkspaceVars

(* ws.exists(r): HEAD, or os.path.exists *)
WorkspaceExists(r, fault) ==
    /\ IsWorkspace
    /\ fault.at <= 1
    /\ IF wsObj.kind = "WebDAVWorkspace"
       THEN LET st == HeadStatus(tree, r.parts, fault.status)
            IN  /\ requests' = <<Request("HEAD", GetAbsoluteUri(wsObj, r),
                                         Timeout, st)>>
                /\ last' = Called("exists", r, <<>>, fault,
                                  DavExistsResult(st))
       ELSE /\ requests' = <<>>
            /\ last' = Called("exists", r, <<>>, fault,
                              LET v == OsPathExists(tree, r.parts, fault.status)
                              IN  IF v \in {"True", "False"} THEN Returned(v)
                                  ELSE Raise(v))
    /\ UNCHANGED <<base, wsObj, tree>>
    /\ UNCHANGED nonWorkspaceVars

(* ws.read(f): GET, or open(path, 'r').read() *)
WorkspaceRead(f, fault) ==
    /\ IsWorkspace
    /\ fault.at <= 1
    /\ IF wsObj.kind = "WebDAVWorkspace"
       THEN LET st == GetStatus(tree, f.parts, fault.status)
            IN  /\ requests' = <<Request("GET", GetAbsoluteUri(wsObj, f),
                                         Timeout, st)>>
                /\ last' = Called("read", f, <<>>, fault,
                                  IF RaiseForStatus(st) THEN Raise("HTTPError")
                                  ELSE Returned(tree[f.parts]))
       ELSE /\ requests' = <<>>
            /\ last' = Called("read", f, <<>>, fault,
                              IF fault.status # 0 THEN Raise("PermissionError")
                              ELSE IF tree[f.parts] = "none"
                              THEN Raise("FileNotFoundError")
                              ELSE IF tree[f.parts] = "dir"
                              THEN Raise("IsADirectoryError")
                              ELSE Returned(tree[f.parts]))
    /\ UNCHANGED <<base, wsObj, tree>>
    /\ UNCHANGED nonWorkspaceVars

(* ws.write(f, content): PUT, or open(path, 'w').write(content) *)
WorkspaceWrite(f, content, fault) ==
    /\ IsWorkspace
    /\ fault.at <= 1
    /\ IF wsObj.kind = "WebDAVWorkspace"
       THEN LET st == PutStatus(tree, f.parts, fault.status)
            IN  /\ tree' = IF st \in {201, 204}
                           THEN [tree EXCEPT ![f.parts] = content] ELSE tree
                /\ requests' = <<Request("PUT", GetAbsoluteUri(wsObj, f),
                                         NoTimeout, st)>>
                /\ last' = Called("write", f, <<>>, fault,
                                  IF RaiseForStatus(st) THEN Raise("HTTPError")
                                  ELSE Returned("None"))
       ELSE LET e == IF fault.status # 0 THEN "PermissionError"
                     ELSE IF tree[f.parts] = "dir" THEN "IsADirectoryError"
                     ELSE IF tree[Parent(f.parts)] = "none"
                     THEN "FileNotFoundError"
                     ELSE IF tree[Parent(f.parts)] # "dir"
                     THEN "NotADirectoryError"
                     ELSE "none"
            IN  /\ tree' = IF e = "none"
                           THEN [tree EXCEPT ![f.parts] = content] ELSE tree
                /\ requests' = <<>>
                /\ last' = Called("write", f, <<>>, fault,
                                  IF e = "none" THEN Returned("None")
                                  ELSE Raise(e))
    /\ UNCHANGED <<base, wsObj>>
    /\ UNCHANGED nonWorkspaceVars

(***************************************************************************)
(* Profile selection (transcoding/profiles.py).                            *)
(***************************************************************************)

(* how many video profiles, and how many audio profiles, a preset lists *)
MaxProfiles == 2

(* VideoCondition with its defaults; aspect ratios are in hundredths *)
VideoCondition(w, h, b, r, mind, maxd) ==
    [min_width |-> w, min_height |-> h, min_bitrate |-> b,
     min_frame_rate |-> r, min_dar |-> mind, max_dar |-> maxd]

AudioCondition(r, b) == [min_sample_rate |-> r, min_bitrate |-> b]

(* the video and audio profiles presets are made of *)
VideoProfiles ==
    { [condition |-> VideoCondition(1920, 1080, 0, 0, 0, 0),
       segment_duration |-> 4, video |-> <<"1080p", "720p">>],
      [condition |-> VideoCondition(0, 0, 0, 24, 150, 0),
       segment_duration |-> 6, video |-> <<"720p">>],
      [condition |-> VideoCondition(0, 0, 0, 0, 0, 150),
       segment_duration |-> 10, video |-> <<"360p", "240p">>] }

AudioProfiles ==
    { [condition |-> AudioCondition(44100, 128), audio |-> <<"aac192">>],
      [condition |-> AudioCondition(0, 0), audio |-> <<"aac96">>] }

(* the tracks every preset defines, in the order it defines them *)
VideoTracks ==
    << [id |-> "360p", height |-> 360], [id |-> "720p", height |-> 720],
       [id |-> "1080p", height |-> 1080] >>
AudioTracks ==
    << [id |-> "aac96", bitrate |-> 96], [id |-> "aac192", bitrate |-> 192] >>

(* lists of distinct elements of S, at most MaxProfiles long *)
ListsOf(S) ==
    { l \in UNION {[1..n -> S] : n \in 0..MaxProfiles} :
        \A i, j \in DOMAIN l : i # j => l[i] # l[j] }

Presets ==
    [video_profiles : ListsOf(VideoProfiles),
     audio_profiles : ListsOf(AudioProfiles),
     video : {VideoTracks}, audio : {AudioTracks}]

(* the first video and the first audio stream of a source *)
VideoMetas ==
    { [width |-> 1920, height |-> 1080, bitrate |-> 5000, frame_rate |-> 30,
       dar |-> 178],
      [width |-> 1280, height |-> 536, bitrate |-> 2000, frame_rate |-> 24,
       dar |-> 239],
      [width |-> 640, height |-> 480, bitrate |-> 500, frame_rate |-> 15,
       dar |-> 133] }
AudioMetas ==
    { [bitrate |-> 192, sampling_rate |-> 48000],
      [bitrate |-> 64, sampling_rate |-> 22050] }

(* VideoCondition.is_valid *)
VideoIsValid(c, meta) ==
    /\ meta.width >= c.min_width
    /\ meta.height >= c.min_height
    /\ meta.bitrate >= c.min_bitrate
    /\ meta.frame_rate >= c.min_frame_rate
    /\ (c.min_dar = 0 \/ meta.dar >= c.min_dar)
    /\ (c.max_dar = 0 \/ meta.dar <= c.max_dar)

(* AudioCondition.is_valid *)
AudioIsValid(c, meta) ==
    /\ meta.bitrate >= c.min_bitrate
    /\ meta.sampling_rate >= c.min_sample_rate

(* a loop without the break: the last profile that is valid wins *)
RECURSIVE LastValid(_, _)
LastValid(valid, k) ==
    IF k > Len(valid) THEN 0
    ELSE LET later == LastValid(valid, k + 1)
         IN  IF later # 0 THEN later
             ELSE IF valid[k] THEN k ELSE 0

(* for p in profiles: if p.condition.is_valid(meta): break -- the index of
   the profile the loop stops at, from the k-th on, or 0; valid[i] tells
   whether the i-th profile's condition is valid *)
RECURSIVE FirstValid(_, _)
FirstValid(valid, k) ==
    IF k > Len(valid) THEN 0
    ELSE IF valid[k] THEN k
    ELSE FirstValid(valid, k + 1)

(* the ids a profile lists *)
Ids(l) == {l[i] : i \in DOMAIN l}

NoProfile == [video |-> <<>>, audio |-> <<>>,
              container |-> [segment_duration |-> 0]]

(* Preset.select_profile *)
PresetSelect(preset, video, audio) ==
    LET vi == FirstValid([i \in DOMAIN preset.video_profiles |->
                    VideoIsValid(preset.video_profiles[i].condition, video)], 1)
        ai == FirstValid([i \in DOMAIN preset.audio_profiles |->
                    AudioIsValid(preset.audio_profiles[i].condition, audio)], 1)
    IN  IF vi = 0
        THEN [kind |-> "raise", value |-> "No compatible video profiles",
              profile |-> NoProfile]
        ELSE IF ai = 0
        THEN [kind |-> "raise", value |-> "No compatible audio profiles",
              profile |-> NoProfile]
        ELSE [kind |-> "return", value |-> "Profile",
              profile |->
                [video |-> SelectSeq(preset.video,
                     LAMBDA v : v.id \in Ids(preset.video_profiles[vi].video)),
                 audio |-> SelectSeq(preset.audio,
                     LAMBDA a : a.id \in Ids(preset.audio_profiles[ai].audio)),
                 container |-> [segment_duration |->
                     preset.video_profiles[vi].segment_duration]]]

NoSelectArgs ==
    [preset |-> [video_profiles |-> <<>>, audio_profiles |-> <<>>,
                 video |-> <<>>, audio |-> <<>>],
     video |-> CHOOSE m \in VideoMetas : TRUE,
     audio |-> CHOOSE m \in AudioMetas : TRUE]
NoSelected == [kind |-> "none", value |-> "None", profile |-> NoProfile]

InitProfile ==
    /\ selectArgs = NoSelectArgs
    /\ selected = NoSelected

(* profile = preset.select_profile(video, audio) *)
PresetSelectProfile ==
    /\ selected.kind = "none"
    /\ \E preset \in Presets : \E video \in VideoMetas : \E audio \in AudioMetas :
         /\ selectArgs' = [preset |-> preset, video |-> video, audio |-> audio]
         /\ selected' = PresetSelect(preset, video, audio)
    /\ UNCHANGED nonProfileVars

(***************************************************************************)
(* Validation of the result's duration (transcoding.py, tasks.py).         *)
(***************************************************************************)

(* the allowed share of the source duration, in percent *)
DURATION_DELTA == 95

SourceDurations == 18..20
ResultDurations == 17..20

(* Transcoder.validate in transcoding.py: raise when the shortest stream of
   the result is shorter than DURATION_DELTA of the longest of the source *)
Validate(src, dst) ==
    LET src_duration == IF src.video >= src.audio THEN src.video ELSE src.audio
        dst_duration == IF dst.video <= dst.audio THEN dst.video ELSE dst.audio
    IN  IF dst_duration * 100 < DURATION_DELTA * src_duration
        THEN "TranscodeError" ELSE "none"

(* Processor.process in transcoding/transcoder.py, which the tasks and the
   strategy call: run ffmpeg, read the result's metadata and return it; of
   the result it requires only that the streams are there *)
Process(src, dst) == "none"

(* TranscodeVideo.run: DONE when process_video returned, ERROR when it
   raised *)
StatusAfter(raised) == IF raised = "none" THEN DONE ELSE ERROR

NoDurations == [src |-> [video |-> 0, audio |-> 0],
                dst |-> [video |-> 0, audio |-> 0]]

InitValidate ==
    /\ durations = NoDurations
    /\ validation = "none"
    /\ jobStatus = PROCESS

(* one transcode: the durations of its source and of its result, what
   Transcoder.validate makes of them, and how the job ends *)
Transcode ==
    /\ durations = NoDurations
    /\ \E sv, sa \in SourceDurations : \E dv, da \in ResultDurations :
         LET src == [video |-> sv, audio |-> sa]
             dst == [video |-> dv, audio |-> da]
         IN  /\ durations' = [src |-> src, dst |-> dst]
             /\ validation' = Validate(src, dst)
             /\ jobStatus' = StatusAfter(Process(src, dst))
    /\ UNCHANGED nonValidateVars

(***************************************************************************)
(* Sentinels: json.dumps(asdict(value)) and from_native(json.loads(text))  *)
(* (strategy.py, transcoding/metadata.py, transcoding/profiles.py).        *)
(***************************************************************************)

(* Python values: None, numbers by type, strings, lists, dicts and
   instances of dataclasses (py is the class, d the fields) *)
PyNone == [py |-> "None"]
PyInt(n) == [py |-> "int", v |-> n]
PyFloat(n) == [py |-> "float", v |-> n]
TS(n) == [py |-> "TS", v |-> n]
PyStr(t) == [py |-> "str", s |-> t]
List(items) == [py |-> "list", items |-> items]
Dict(d) == [py |-> "dict", d |-> d]
Obj(cls, d) == [py |-> cls, d |-> d]

DataClasses == {"Metadata", "VideoMeta", "AudioMeta", "Scene", "Profile",
                "VideoTrack", "AudioTrack", "Container"}

(* the numbers the streams and tracks below are made of *)
Numbers == {0, 1, 2, 10, 20, 30, 40, 50, 60, 23, 30, 96, 192, 300, 600, 900,
            1200, 1500, 1800, 360, 720, 1080, 640, 1280, 1920, 48000, 100500}

(* dataclasses.asdict: instances of dataclasses become dicts, recursively
   through lists and dicts; every other value is copied *)
RECURSIVE DataclassAsdict(_)
DataclassAsdict(v) ==
    IF v.py \in DataClasses \cup {"dict"}
    THEN Dict([k \in DOMAIN v.d |-> DataclassAsdict(v.d[k])])
    ELSE IF v.py = "list"
    THEN List([i \in DOMAIN v.items |-> DataclassAsdict(v.items[i])])
    ELSE v

(* json.dumps: the JSON text, as the tree of its values; an int is written
   in digits, a float (and TS, a float) with its fraction *)
RECURSIVE JsonDumps(_)
JsonDumps(v) ==
    CASE v.py = "None" -> [json |-> "null"]
      [] v.py = "int" -> [json |-> "number", text |-> ToString(v.v)]
      [] v.py \in {"float", "TS"} ->
            [json |-> "number", text |-> ToString(v.v) \o ".0"]
      [] v.py = "str" -> [json |-> "string", text |-> v.s]
      [] v.py = "list" ->
            [json |-> "array",
             items |-> [i \in DOMAIN v.items |-> JsonDumps(v.items[i])]]
      [] v.py = "dict" ->
            [json |-> "object",
             members |-> [k \in DOMAIN v.d |-> JsonDumps(v.d[k])]]
      [] OTHER -> [json |-> "TypeError"]

(* json.loads: null is None, digits an int, digits with a fraction a float,
   an array a list and an object a dict *)
RECURSIVE JsonLoads(_)
JsonLoads(j) ==
    CASE j.json = "null" -> PyNone
      [] j.json = "number" ->
            IF \E n \in Numbers : ToString(n) = j.text
            THEN PyInt(CHOOSE n \in Numbers : ToString(n) = j.text)
            ELSE PyFloat(CHOOSE n \in Numbers : ToString(n) \o ".0" = j.text)
      [] j.json = "string" -> PyStr(j.text)
      [] j.json = "array" ->
            List([i \in DOMAIN j.items |-> JsonLoads(j.items[i])])
      [] j.json = "object" ->
            Dict([k \in DOMAIN j.members |-> JsonLoads(j.members[k])])

(* get_meta_kwargs that leaves the scenes as json.loads gave them *)
GetMetaKwargsCopy(data) == data.d

(* get_meta_kwargs: a copy of data with every scene made a Scene *)
GetMetaKwargs(data) ==
    [data.d EXCEPT !.scenes =
        List([i \in DOMAIN @.items |-> Obj("Scene", @.items[i].d)])]

(* video_meta_from_native, audio_meta_from_native *)
VideoMetaFromNative(data) == Obj("VideoMeta", GetMetaKwargs(data))
AudioMetaFromNative(data) == Obj("AudioMeta", GetMetaKwargs(data))

(* Metadata.from_native *)
MetadataFromNative(data) ==
    Obj("Metadata",
        [videos |-> List([i \in DOMAIN data.d.videos.items |->
                            VideoMetaFromNative(data.d.videos.items[i])]),
         audios |-> List([i \in DOMAIN data.d.audios.items |->
                            AudioMetaFromNative(data.d.audios.items[i])]),
         uri |-> data.d.uri])

(* Profile.from_native with VideoTrack, AudioTrack and Container.from_native *)
ProfileFromNative(data) ==
    Obj("Profile",
        [video |-> List([i \in DOMAIN data.d.video.items |->
                           Obj("VideoTrack", data.d.video.items[i].d)]),
         audio |-> List([i \in DOMAIN data.d.audio.items |->
                           Obj("AudioTrack", data.d.audio.items[i].d)]),
         container |-> Obj("Container", data.d.container.d)])

(* the scenes of a stream whose scenes last the given durations *)
Scenes(stream, ds) ==
    List([i \in DOMAIN ds |->
            Obj("Scene", [stream |-> PyStr(stream), duration |-> TS(ds[i]),
                          start |-> TS(0), position |-> TS(0)])])

RECURSIVE Sum(_)
Sum(ds) == IF ds = <<>> THEN 0 ELSE Head(ds) + Sum(Tail(ds))

(* the metadata the Analyzer gives for a file of one video and one audio
   stream; it sets no device *)
MakeMeta(ds, uri) ==
    Obj("Metadata",
        [uri |-> PyStr(uri),
         videos |-> List(<<Obj("VideoMeta",
            [bitrate |-> PyInt(100500), frame_rate |-> PyFloat(30),
             dar |-> PyFloat(2), par |-> PyFloat(1), width |-> PyInt(1920),
             height |-> PyInt(1080), frames |-> PyInt(Sum(ds) * 30),
             streams |-> List(<<PyStr("v")>>), start |-> TS(0),
             duration |-> TS(Sum(ds)), device |-> PyNone,
             scenes |-> Scenes("v", ds)])>>),
         audios |-> List(<<Obj("AudioMeta",
            [bitrate |-> PyInt(100500), sampling_rate |-> PyInt(48000),
             channels |-> PyInt(2), samples |-> PyInt(0),
             streams |-> List(<<PyStr("a")>>), start |-> TS(0),
             duration |-> TS(Sum(ds)),
             scenes |-> Scenes("a", ds)])>>)])

SceneDurations == {10, 20, 30}
Uris == {"source.mp4", "c1.ts"}
Metadatas ==
    { MakeMeta(ds, uri) :
        ds \in [1..1 -> SceneDurations] \cup [1..2 -> SceneDurations],
        uri \in Uris }

(* the profiles select_profile gives: tracks of a preset and a container *)
MakeProfile(heights, bitrates, seg) ==
    Obj("Profile",
        [video |-> List([i \in DOMAIN heights |-> Obj("VideoTrack",
            [id |-> PyStr("v"), codec |-> PyStr("libx264"),
             constant_rate_factor |-> PyInt(23), preset |-> PyStr("slow"),
             max_rate |-> PyInt(heights[i]), buf_size |-> PyInt(heights[i]),
             profile |-> PyStr("high"), pix_fmt |-> PyStr("yuv420p"),
             width |-> PyInt(1920), height |-> PyInt(heights[i]),
             frame_rate |-> PyFloat(30), gop_size |-> PyInt(60),
             force_key_frames |-> PyStr("expr")])]),
         audio |-> List([i \in DOMAIN bitrates |-> Obj("AudioTrack",
            [id |-> PyStr("a"), codec |-> PyStr("aac"),
             bitrate |-> PyInt(bitrates[i]), channels |-> PyInt(2),
             sample_rate |-> PyInt(48000)])]),
         container |-> Obj("Container", [segment_duration |-> seg])])

ProfileValues ==
    { MakeProfile(hs, bs, seg) :
        hs \in {<<1080>>, <<1080, 720>>, <<360>>},
        bs \in {<<192>>, <<96>>},
        seg \in {PyNone, PyFloat(2), PyFloat(10)} }

(* the sentinels that hold a Metadata, and the one that holds a Profile *)
MetadataSentinels == {SourceMetadata, SplitMetadata, Sentinel("c1.ts")}

NoSentinel == [file |-> "none", content |-> [json |-> "null"]]

InitRoundTrip ==
    /\ sentinel = NoSentinel
    /\ stepValue = PyNone
    /\ resumed = PyNone

(* analyze_source, select_profile, split, process_segment with no sentinel:
   the operation returns a value, json.dumps(asdict(value)) is written to
   the sentinel and the value is returned *)
StepWritesSentinel ==
    /\ sentinel = NoSentinel
    /\ \/ \E f \in MetadataSentinels : \E v \in Metadatas :
            /\ sentinel' = [file |-> f, content |-> JsonDumps(DataclassAsdict(v))]
            /\ stepValue' = v
       \/ \E v \in ProfileValues :
            /\ sentinel' = [file |-> ProfileFile,
                            content |-> JsonDumps(DataclassAsdict(v))]
            /\ stepValue' = v
    /\ UNCHANGED resumed
    /\ UNCHANGED nonRoundTripVars

(* the same step in a later run: the sentinel exists, and the step returns
   from_native(json.loads(content)) *)
StepReadsSentinel ==
    /\ sentinel # NoSentinel
    /\ resumed = PyNone
    /\ resumed' = IF sentinel.file = ProfileFile
                  THEN ProfileFromNative(JsonLoads(sentinel.content))
                  ELSE MetadataFromNative(JsonLoads(sentinel.content))
    /\ UNCHANGED <<sentinel, stepValue>>
    /\ UNCHANGED nonRoundTripVars

(***************************************************************************)
(* Functions of the strategy, the Segmentor and the Analyzer, each applied *)
(* once to arguments drawn from a bounded set.                             *)
(***************************************************************************)

NoArgs == <<>>

InitCall ==
    /\ called = "none"
    /\ args = NoArgs
    /\ returned = NoArgs

(* the function fn was applied to a and returned r *)
Apply(fn, a, r) ==
    /\ called = "none"
    /\ called' = fn
    /\ args' = a
    /\ returned' = r
    /\ UNCHANGED nonCallVars

(* how many chunks a source is split into *)
MaxChunks == 3

(* the metadata of a transcoded chunk that lasts d seconds, with nv video
   and na audio streams *)
ChunkMeta(d, nv, na) ==
    [uri |-> "chunk",
     videos |-> [i \in 1..nv |->
        [duration |-> d, frames |-> d * 30, bitrate |-> 1000 * i,
         scenes |-> IF d > 3 THEN <<[duration |-> d - 3], [duration |-> 3]>>
                    ELSE <<[duration |-> d]>>]],
     audios |-> [i \in 1..na |->
        [duration |-> d, samples |-> d * 48000, bitrate |-> 192,
         scenes |-> <<[duration |-> d]>>]]]

ChunkDurations == {2, 3, 5}

(* the metadata of the chunks of one source in playlist order: every chunk
   is transcoded with the same profile and has the same streams *)
ChunkLists ==
    UNION { { [k \in 1..n |-> ChunkMeta(ds[k], nv, na)] :
                ds \in [1..n -> ChunkDurations] } :
            n \in 1..MaxChunks, nv \in 1..2, na \in 0..1 }

(* result_meta = None *)
NoMeta == [uri |-> NULL, videos |-> <<>>, audios |-> <<>>]

(* merge_metadata that puts the scenes of the chunk before those merged so
   far *)
MergeMetadataScenesFirst(result_meta, segment_meta) ==
    IF result_meta = NoMeta THEN segment_meta
    ELSE [result_meta EXCEPT
            !.audios = [i \in DOMAIN @ |->
                IF i > Len(segment_meta.audios) THEN @[i]
                ELSE [@[i] EXCEPT
                        !.duration = @ + segment_meta.audios[i].duration,
                        !.samples = @ + segment_meta.audios[i].samples,
                        !.scenes = segment_meta.audios[i].scenes \o @]],
            !.videos = [i \in DOMAIN @ |->
                IF i > Len(segment_meta.videos) THEN @[i]
                ELSE [@[i] EXCEPT
                        !.duration = @ + segment_meta.videos[i].duration,
                        !.frames = @ + segment_meta.videos[i].frames,
                        !.scenes = segment_meta.videos[i].scenes \o @]]]

(* ResumableStrategy.merge_metadata: the chunk's metadata when nothing was
   merged yet; else every stream of the result that zip pairs with a stream
   of the chunk is replaced by one with the durations and the frames or
   samples added and the scenes appended *)
MergeMetadata(result_meta, segment_meta) ==
    IF result_meta = NoMeta THEN segment_meta
    ELSE [result_meta EXCEPT
            !.audios = [i \in DOMAIN @ |->
                IF i > Len(segment_meta.audios) THEN @[i]
                ELSE [@[i] EXCEPT
                        !.duration = @ + segment_meta.audios[i].duration,
                        !.samples = @ + segment_meta.audios[i].samples,
                        !.scenes = @ \o segment_meta.audios[i].scenes]],
            !.videos = [i \in DOMAIN @ |->
                IF i > Len(segment_meta.videos) THEN @[i]
                ELSE [@[i] EXCEPT
                        !.duration = @ + segment_meta.videos[i].duration,
                        !.frames = @ + segment_meta.videos[i].frames,
                        !.scenes = @ \o segment_meta.videos[i].scenes]]]

(* the loop of process(): result_meta = merge_metadata(result_meta,
   segment_meta) for the chunks from the k-th on *)
RECURSIVE MergeSegments(_, _, _)
MergeSegments(chunks, k, result_meta) ==
    IF k > Len(chunks) THEN result_meta
    ELSE MergeSegments(chunks, k + 1, MergeMetadata(result_meta, chunks[k]))

(* process(): the metadata of the chunks merged in playlist order *)
ApplyMergeMetadata ==
    \E chunks \in ChunkLists :
        Apply("merge_metadata", chunks, MergeSegments(chunks, 1, NoMeta))

(* how many codecs an output has *)
MaxCodecs == 4

VIDEO == "video"
AUDIO == "audio"

(* the output codecs: kind and bitrate *)
Codecs == [kind : {VIDEO, AUDIO}, bitrate : {1000, 2000}]
CodecLists == UNION {[1..n -> Codecs] : n \in 0..MaxCodecs}

(* [c for c in codecs_list if c.kind == kind], in the order of the list *)
OfKind(codecs_list, kind) == SelectSeq(codecs_list, LAMBDA c : c.kind = kind)

(* f'a:{i},agroup:a{i}:bandwidth:{a.bitrate}', the text in pieces *)
AudioEntry(i, a) ==
    <<"a:", ToString(i), ",agroup:a", ToString(i), ":bandwidth:",
      ToString(a.bitrate)>>

(* an entry of a video stream that names its own index as the group *)
VideoEntryOwnGroup(i, j, v) ==
    <<"v:", ToString(j), ",agroup:a", ToString(j), ":bandwidth:",
      ToString(v.bitrate)>>

(* f'v:{j},agroup:a{i}:bandwidth:{v.bitrate}' *)
VideoEntry(i, j, v) ==
    <<"v:", ToString(j), ",agroup:a", ToString(i), ":bandwidth:",
      ToString(v.bitrate)>>

(* ' '.join(vsm) *)
RECURSIVE JoinSpace(_)
JoinSpace(vsm) ==
    IF vsm = <<>> THEN <<>>
    ELSE IF Len(vsm) = 1 THEN vsm[1]
    ELSE vsm[1] \o <<" ">> \o JoinSpace(Tail(vsm))

(* Segmentor.get_var_stream_map: an entry for every audio, then one for
   every pair of product(enumerate(audios), enumerate(videos)); enumerate
   counts from 0 *)
GetVarStreamMap(codecs_list) ==
    LET audioCodecs == OfKind(codecs_list, AUDIO)
        videoCodecs == OfKind(codecs_list, VIDEO)
        A == Len(audioCodecs)
        V == Len(videoCodecs)
    IN  JoinSpace(
          [i \in 1..A |-> AudioEntry(i - 1, audioCodecs[i])] \o
          [p \in 1..(A * V) |->
              VideoEntry((p - 1) \div V, (p - 1) % V,
                         videoCodecs[((p - 1) % V) + 1])])

(* get_output_kwargs: var_stream_map=self.get_var_stream_map(codecs_list) *)
ApplyGetVarStreamMap ==
    \E codecs_list \in CodecLists :
        Apply("get_var_stream_map", codecs_list, GetVarStreamMap(codecs_list))

(* round(x) and f'{x:.3f}' of x = n / d: the nearest integer, the even one
   of two that are equally near *)
RoundHalfEven(n, d) ==
    LET q == n \div d
        r == n % d
    IN  IF 2 * r < d THEN q
        ELSE IF 2 * r > d THEN q + 1
        ELSE IF q % 2 = 0 THEN q ELSE q + 1

RECURSIVE Gcd(_, _)
Gcd(a, b) == IF b = 0 THEN a ELSE Gcd(b, a % b)

(* video tracks as mediainfo reports them; display_aspect_ratio and
   pixel_aspect_ratio in thousandths, 0 when the key is missing *)
Widths == {1280, 1920}
Heights == {0, 536, 720, 804, 1080}
Dars == {0, 1333, 1778, 2000, 2400}
Pars == {0, 1000, 1067, 1422}
AspectTracks == [width : Widths, height : Heights, dar : Dars, par : Pars]

(* Analyzer.fix_par: dar and par as fractions [n, d] of thousandths; the
   result is what is written to the track, fixed telling whether anything
   was written *)
FixPar(t) ==
    IF t.width = 0 \/ t.height = 0
    THEN [dar |-> t.dar, par |-> t.par, fixed |-> FALSE]
    ELSE LET restored ==
                 IF t.par = 0 /\ t.dar # 0
                 THEN [dar |-> [n |-> t.dar, d |-> 1],
                       par |-> [n |-> t.dar * t.height, d |-> t.width]]
                 ELSE IF t.dar = 0 /\ t.par # 0
                 THEN [dar |-> [n |-> t.par * t.width, d |-> t.height],
                       par |-> [n |-> t.par, d |-> 1]]
                 ELSE IF t.dar = 0 /\ t.par = 0
                 THEN [dar |-> [n |-> 1000 * t.width, d |-> t.height],
                       par |-> [n |-> 1000, d |-> 1]]
                 ELSE [dar |-> [n |-> t.dar, d |-> 1],
                       par |-> [n |-> t.par, d |-> 1]]
             (* abs(dar - ratio * par) >= 0.001, which only values that
                were both reported can satisfy *)
             off == /\ t.dar # 0 /\ t.par # 0
                    /\ LET diff == t.dar * t.height - t.width * t.par
                       IN  (IF diff < 0 THEN -diff ELSE diff) >= t.height
             par == IF off THEN [n |-> t.dar * t.height, d |-> t.width]
                    ELSE restored.par
         IN  [dar |-> RoundHalfEven(restored.dar.n, restored.dar.d),
              par |-> RoundHalfEven(par.n, par.d),
              fixed |-> TRUE]

(* get_meta_data: self.fix_par(t) for a video track *)
ApplyFixPar ==
    \E t \in AspectTracks : Apply("fix_par", t, FixPar(t))

(* duration in milliseconds, frame_rate in thousandths of a frame per
   second and frame_count, 0 when the key is missing *)
TrackDurations == {0, 1000, 2000, 3333, 4000, 10000}
FrameRates == {0, 12500, 25000, 30000}
FrameCounts == {0, 25, 50, 100, 125, 300}
FrameTracks == [duration : TrackDurations, frame_rate : FrameRates,
                frames : FrameCounts]

(* fix_frames that trusts the three values when all of them are reported *)
FixFramesNoCheck(t) ==
    IF Cardinality({k \in {"duration", "frame_rate", "frames"} : t[k] = 0}) >= 2
    THEN [duration |-> t.duration * 1000, frame_rate |-> t.frame_rate,
          frames |-> t.frames, fixed |-> FALSE]
    ELSE LET g == Gcd(1000000000, t.frame_rate)
         IN  [duration |-> IF t.duration = 0
                           THEN RoundHalfEven(t.frames * (1000000000 \div g),
                                              t.frame_rate \div g)
                           ELSE t.duration * 1000,
              frame_rate |-> IF t.frame_rate = 0
                             THEN RoundHalfEven(t.frames * 1000000, t.duration)
                             ELSE t.frame_rate,
              frames |-> IF t.frames = 0
                         THEN RoundHalfEven(t.duration * t.frame_rate, 1000000)
                         ELSE t.frames,
              fixed |-> TRUE]

(* Analyzer.fix_frames: the result is the duration in microseconds (the
   milliseconds with three decimals), the frame rate in thousandths and the
   frame count that are written to the track; fixed tells whether anything
   was written *)
FixFrames(t) ==
    IF Cardinality({k \in {"duration", "frame_rate", "frames"} : t[k] = 0}) >= 2
    THEN [duration |-> t.duration * 1000, frame_rate |-> t.frame_rate,
          frames |-> t.frames, fixed |-> FALSE]
    ELSE LET g == Gcd(1000000000, t.frame_rate)
             diff == t.frames * 1000000 - t.duration * t.frame_rate
             (* abs(frames - duration * frame_rate) > 1, which only values
                that were all reported can satisfy *)
             off == /\ t.duration # 0 /\ t.frame_rate # 0 /\ t.frames # 0
                    /\ (IF diff < 0 THEN -diff ELSE diff) > 1000000
         IN  [duration |-> IF t.duration = 0
                           THEN RoundHalfEven(t.frames * (1000000000 \div g),
                                              t.frame_rate \div g)
                           ELSE t.duration * 1000,
              frame_rate |-> IF t.frame_rate = 0 \/ off
                             THEN RoundHalfEven(t.frames * 1000000, t.duration)
                             ELSE t.frame_rate,
              frames |-> IF t.frames = 0
                         THEN RoundHalfEven(t.duration * t.frame_rate, 1000000)
                         ELSE t.frames,
              fixed |-> TRUE]

(* get_meta_data: self.fix_frames(t) for a video track *)
ApplyFixFrames ==
    \E t \in FrameTracks : Apply("fix_frames", t, FixFrames(t))

Init ==
    /\ InitJob /\ InitStrategy /\ InitEncoder /\ InitSupervisor /\ InitSave
    /\ InitWorkspaces
    /\ InitProfile /\ InitValidate
    /\ InitCall
    /\ InitRoundTrip

Next ==
    \/ SendTranscodeTask
    \/ \E w \in Workers : Redeliver(w)
    \/ \E w \in Workers : LockSelect(w)
    \/ \E w \in Workers : LockRetry(w)
    \/ \E w \in Workers : LockTransportError(w)
    \/ \E w \in Workers : LockCommit(w)
    \/ \E w \in Workers : ProcessReturn(w)
    \/ \E w \in Workers : ProcessRaise(w)
    \/ \E w \in Workers : ProcessShutdown(w)
    \/ \E w \in Workers : UnlockSelect(w)
    \/ \E w \in Workers : UnlockFail(w)
    \/ \E w \in Workers : UnlockCommit(w)

Spec == Init /\ [][Next]_vars

(* the job runner with workers that may be killed *)
NextWorkerLost ==
    \/ Next
    \/ \E w \in Workers : WorkerLost(w)

SpecWorkerLost == Init /\ [][NextWorkerLost]_vars

NextStrategy ==
    \/ StrategyCall
    \/ StrategyRaise
    \/ AnalyzeSource
    \/ SelectProfile
    \/ Split
    \/ SplitInterrupted
    \/ GetSegmentList
    \/ ProcessSegment
    \/ TranscoderRaise
    \/ WsWriteOpen
    \/ WsWriteClose
    \/ MergeSegmentor
    \/ StrategyReturn

SpecStrategy == Init /\ [][NextStrategy]_vars

NextEncoder ==
    \/ FfRun
    \/ ProcessorRun

SpecEncoder == Init /\ [][NextEncoder]_vars

NextSupervisor ==
    \/ SetSameProcessGroup
    \/ \E c \in Children : Fork(c)
    \/ \E c \in Children : Exit(c)
    \/ SendTermToChildren

SpecSupervisor == Init /\ [][NextSupervisor]_vars

NextSave ==
    \/ \E v \in Videos : VideoCreate(v)
    \/ \E v \in Videos : VideoSave(v)
    \/ \E v \in Videos : Commit(v)
    \/ \E v \in Videos : Rollback(v)
    \/ \E v \in Videos : OnCommitSend(v)
    \/ \E v \in Videos : OnCommitSendFails(v)

SpecSave == Init /\ [][NextSave]_vars

NextWorkspace ==
    \/ \E b \in Bases : WorkspaceInit(b)
    \/ \E c \in Collections : \E fault \in Faults : CreateCollection(c, fault)
    \/ \E path \in EnsurePaths : \E fault \in Faults :
          EnsureCollection(path, fault)
    \/ \E c \in Collections : \E fault \in Faults : DeleteCollection(c, fault)
    \/ \E r \in Collections \cup WorkspaceFiles : \E fault \in Faults :
          WorkspaceExists(r, fault)
    \/ \E f \in WorkspaceFiles : \E fault \in Faults : WorkspaceRead(f, fault)
    \/ \E f \in WorkspaceFiles : \E content \in Contents : \E fault \in Faults :
          WorkspaceWrite(f, content, fault)

SpecWorkspace == Init /\ [][NextWorkspace]_vars

SpecProfile == Init /\ [][PresetSelectProfile]_vars

SpecValidate == Init /\ [][Transcode]_vars

(* The job sent only while no task of it is queued or running (when it is
   created, and again by the operator once it is DONE or ERROR), and no
   duplicate delivery: the task is delivered, runs, and process_video
   returns, raises or is interrupted by a graceful shutdown. *)
SendSettled == status \in {CREATED, DONE, ERROR} /\ SendTranscodeTask

NextRequeue ==
    \/ SendSettled
    \/ \E w \in Workers : LockSelect(w)
    \/ \E w \in Workers : LockCommit(w)
    \/ \E w \in Workers : ProcessReturn(w)
    \/ \E w \in Workers : ProcessRaise(w)
    \/ \E w \in Workers : ProcessShutdown(w)
    \/ \E w \in Workers : UnlockSelect(w)
    \/ \E w \in Workers : UnlockCommit(w)

(* every enqueued task is eventually delivered and every step of a run
   eventually succeeds; a shutdown may but need not happen *)
FairRequeue ==
    /\ WF_vars(\E w \in Workers : LockSelect(w))
    /\ WF_vars(\E w \in Workers : LockCommit(w))
    /\ WF_vars(\E w \in Workers : ProcessReturn(w) \/ ProcessRaise(w))
    /\ WF_vars(\E w \in Workers : UnlockSelect(w))
    /\ WF_vars(\E w \in Workers : UnlockCommit(w))

SpecRequeue == Init /\ [][NextRequeue]_vars /\ FairRequeue

SpecFixPar == Init /\ [][ApplyFixPar]_vars

SpecFixFrames == Init /\ [][ApplyFixFrames]_vars

SpecVarStreamMap == Init /\ [][ApplyGetVarStreamMap]_vars

SpecMergeMetadata == Init /\ [][ApplyMergeMetadata]_vars

NextRoundTrip ==
    \/ StepWritesSentinel
    \/ StepReadsSentinel

SpecRoundTrip == Init /\ [][NextRoundTrip]_vars

(***************************************************************************)
(* Properties of the job runner.                                           *)
(***************************************************************************)

(* w is between a successful lock_video and the end of its unlock_video *)
Holding(w) == pc[w] \in {"process_video", "unlock_video", "unlock_commit"}

Holders == {w \in Workers : Holding(w)}

(* the step is the end of w's run through unlock_video *)
RunEnds(w) == pc[w] \in {"unlock_video", "unlock_commit"} /\ pc'[w] = "idle"

(* the step is taken by a worker (the operator and the broker leave pc alone) *)
WorkerStep == pc' # pc

(* C1: at most one worker at a time is between a successful lock_video and
   its unlock_video for the job, whatever the interleaving of deliveries,
   retries, shutdown requeues and operator re-sends. *)
OneWorkerPerJob == Cardinality(Holders) <= 1

(* One send of the task and one duplicate delivery of its message (acks_late
   leaves the message with the broker while a worker runs it): the workers'
   steps, counting the commits of lock_video. *)
ConcurrentWorkerNext ==
    \E w \in Workers :
        \/ LockSelect(w) /\ UNCHANGED locks
        \/ LockRetry(w)
        \/ LockVideoCommit(w) /\ locks' = locks + 1
        \/ ProcessReturn(w)
        \/ ProcessRaise(w)
        \/ UnlockSelect(w)
        \/ UnlockCommit(w)

ConcurrentNext ==
    \/ sent = 0 /\ SendTranscodeTask
    \/ \E w \in Workers : redelivered = 0 /\ Redeliver(w)
    \/ ConcurrentWorkerNext

(* a worker that can take a step eventually takes one *)
SpecConcurrent == Init /\ [][ConcurrentNext]_vars /\ WF_vars(ConcurrentWorkerNext)

Drained == (\A m \in Msg : msgs[m] = 0) /\ (\A w \in Workers : pc[w] = "idle")

(* C2: when the same transcode task is delivered to two workers for a QUEUED
   job, exactly one lock_video succeeds; the other finds the row locked or
   the status not QUEUED and retries, process_video is never entered while
   the first worker owns the job, and the second delivery is eventually
   abandoned: the queue drains with a single lock ever taken. *)
ExactlyOneLock ==
    /\ [](Cardinality(Holders) <= 1)
    /\ [](locks <= 1)
    /\ [](\A w \in Workers : Holding(w) => locks = 1)
    /\ <>[]Drained
    /\ []((Drained /\ redelivered = 1) => locks = 1)

(* C2 witness: the second delivery was refused and retried while the first
   worker owns the job *)
RefusedWhileOwned ==
    /\ redelivered = 1
    /\ result.kind = "Retry"
    /\ \E w \in Workers : pc[w] = "process_video"
    /\ status = PROCESS

(* C3: while a worker is between its successful lock_video and its
   unlock_video, the stored status of the job is never QUEUED. *)
NeverQueuedWhileHeld ==
    \A w \in Workers : pc[w] \in {"process_video", "unlock_video"} => status # QUEUED

(* C4: every status change made by a worker is QUEUED->PROCESS, PROCESS->DONE,
   PROCESS->ERROR or, on shutdown, PROCESS->QUEUED; a worker never changes a
   job whose status is CREATED, DONE or ERROR. *)
WorkerTransitions ==
    [][WorkerStep =>
         /\ status' # status =>
              /\ <<status, status'>> \in {<<QUEUED, PROCESS>>, <<PROCESS, DONE>>,
                                          <<PROCESS, ERROR>>, <<PROCESS, QUEUED>>}
              /\ status' = QUEUED => error' = Repr(SoftTimeLimitExceeded)
         /\ status \in {CREATED, DONE, ERROR} => rowVars' = rowVars]_vars

(* C4 witness: a task found the job DONE, left it alone and retried *)
RetriedOnDoneJob == status = DONE /\ result.kind = "Retry"

(* C5: status = QUEUED implies task_id is not null, and status = PROCESS
   implies task_id is not null and basename is not null. *)
RowInvariants ==
    /\ status = QUEUED => task_id # NULL
    /\ status = PROCESS => task_id # NULL /\ basename # NULL

(* C6: unlock_video changes the job only if the row can be locked, its status
   is PROCESS and its task_id is the current task's id; otherwise it raises a
   RuntimeError, publishes no retry and leaves every field of the row as it
   found it. *)
UnlockOnlyOwnRow ==
    [][\A w \in Workers :
         /\ (pc[w] = "unlock_video" /\ pc'[w] = "unlock_commit") =>
              /\ rowLock = NULL /\ rowLock' = w
              /\ status = PROCESS /\ task_id = request[w].id
         /\ (pc[w] = "unlock_commit" /\ pc'[w] = "idle") =>
              /\ rowLock = w /\ status = PROCESS /\ task_id = request[w].id
              /\ task_id' = task_id /\ basename' = basename
         /\ (pc[w] = "unlock_video" /\ pc'[w] = "idle") =>
              /\ rowLock # NULL \/ status # PROCESS \/ task_id # request[w].id
              /\ rowVars' = rowVars
              /\ msgs' = msgs
              /\ result'.kind = "RuntimeError"]_vars

(* C6 witness: an unlock_video that found the row taken over by a later task *)
UnlockRefused ==
    /\ result.kind = "RuntimeError"
    /\ status = QUEUED
    /\ sent = 2

(* C7: a run whose process_video was interrupted by SoftTimeLimitExceeded,
   the job being PROCESS and still the task's own when the run ends, leaves
   the job QUEUED with the shutdown recorded in error, and has published the
   task again exactly once. *)
ShutdownRequeues ==
    [][\A w \in Workers :
         (/\ RunEnds(w)
          /\ local[w].status = QUEUED
          /\ status = PROCESS
          /\ task_id = request[w].id) =>
              /\ status' = QUEUED
              /\ error' = Repr(SoftTimeLimitExceeded)
              /\ exc[w] = "Retry"]_vars

(* C8: if process_video returned, the run ends with the job DONE, the returned
   metadata stored and error null; if it raised another exception, the run
   ends with the job ERROR, error = repr(e), and the task returns the error
   without publishing a retry. *)
OutcomeCommitted ==
    [][\A w \in Workers :
         /\ (RunEnds(w) /\ local[w].status = DONE) =>
              /\ status' = DONE
              /\ metadata' = local[w].meta
              /\ error' = NULL
         /\ (RunEnds(w) /\ local[w].status = ERROR) =>
              /\ status' = ERROR
              /\ error' = local[w].error
              /\ result' = [kind |-> "return", value |-> local[w].error]
              /\ msgs' = msgs]_vars

(***************************************************************************)
(* Properties of the resumable strategy.                                   *)
(***************************************************************************)

(* the step is the end of a run of the pipeline by an exception *)
RunRaises == outcome = "running" /\ outcome' = "raised"

(* the current step is a sentinel-guarded one that found no sentinel when it
   began: only then does it get as far as ws.write *)
WritingSentinel == step \in {"write", "fill"} /\ spc # "merge"

(* C9 as stated: when process_segment(c) completes, results/c and
   results/c.json exist, and once it has completed no later run of the
   pipeline for the basename invokes the Transcoder for c. *)
NeverEncodedAgain ==
    [][\A c \in Chunks :
         /\ (c \notin kept /\ c \in kept') =>
              ws'[ResultFile(c)].kind = "ts" /\ ws'[Sentinel(c)].kind = "json"
         /\ c \in processed => transcoded'[c] = transcoded[c]]_vars

(* C9, amended: when process_segment(c) completes, results/c and
   results/c.json exist; as long as no run has ended successfully since
   (which deletes the temp tree), both stay as they are and no run invokes
   the Transcoder for c: it gets past c on the sentinel alone. *)
NotEncodedAgainWhileKept ==
    /\ [](\A c \in kept :
            ws[ResultFile(c)].kind = "ts" /\ Loads(ws[Sentinel(c)]) \in Metas)
    /\ [][\A c \in kept :
            /\ transcoded'[c] = transcoded[c]
            /\ c \in kept' =>
                 /\ ws'[Sentinel(c)] = ws[Sentinel(c)]
                 /\ ws'[ResultFile(c)] = ws[ResultFile(c)]]_vars

(* C9 witness: the second run is at the second chunk, which the first run
   encoded without getting to its sentinel, and has passed the first chunk
   without encoding it again *)
ResumedPastFirstChunk ==
    /\ runs = 2
    /\ spc = "process_segment" /\ step = "check" /\ idx = 2
    /\ segments[1] \in kept
    /\ transcoded[segments[1]] = 1
    /\ transcoded[segments[2]] = 1
    /\ ~Exists(Sentinel(segments[2]))

(* C10: if a guarded step that began without its sentinel raises or is
   cancelled at any point, the sentinel does not exist afterwards. *)
NoSentinelForFailedStep ==
    [][(RunRaises /\ WritingSentinel) => ws'[StepFile].kind = "absent"]_vars

(* the step is the end of a run of the pipeline by a normal return *)
RunReturns == outcome = "running" /\ outcome' = "returned"

(* C11: when process returns normally the temp tree is deleted and the store
   tree, with the HLS output, is kept; when process raises (cancellation
   included) the store tree is deleted, the temp tree and every sentinel in
   it stay as they are, and the run ends with the exception. *)
CleanupByOutcome ==
    [][/\ RunReturns =>
            /\ ~wsRoot' /\ \A f \in Files : ws'[f] = Absent
            /\ store = "hls" /\ store' = store
       /\ RunRaises =>
            /\ store' = "absent"
            /\ wsRoot /\ wsRoot'
            /\ \A f \in Sentinels : ws'[f] = ws[f]
       /\ (outcome = "running" /\ spc' = "idle") => (RunReturns \/ RunRaises)]_vars

(* C11 witness: a run has raised after split.json was written: the store
   tree is gone, the temp tree and the sentinel are there *)
RaisedRunKeptTemp ==
    /\ outcome = "raised"
    /\ store = "absent"
    /\ wsRoot
    /\ ws[SplitMetadata].kind = "json"

(* the non-comment lines of a playlist, in line order *)
RECURSIVE NonCommentLines(_)
NonCommentLines(lines) ==
    IF lines = <<>> THEN <<>>
    ELSE IF Head(lines) \in CommentLines THEN NonCommentLines(Tail(lines))
    ELSE <<Head(lines)>> \o NonCommentLines(Tail(lines))

(* C13: the chunk list get_segment_list returns is the playlist's non-comment
   lines in their line order, and concat.ffconcat holds the ffconcat header
   followed by exactly those chunks, one file line each, in the same order. *)
ConcatInPlaylistOrder ==
    /\ segments # <<>> => segments = NonCommentLines(ws[VideoPlaylistFile].data)
    /\ ws[ConcatFile].kind = "ffconcat" =>
         LET chunks == NonCommentLines(ws[VideoPlaylistFile].data)
             lines == ws[ConcatFile].data
         IN /\ Len(lines) = Len(chunks) + 1
            /\ lines[1] = "ffconcat version 1.0"
            /\ \A i \in 1..Len(chunks) : lines[i + 1] = "file '" \o chunks[i] \o "'"

(* C13 witness: concat.ffconcat is written for a playlist that lists its
   chunks in other than alphabetical order *)
ConcatForUnsortedPlaylist ==
    /\ ws[ConcatFile].kind = "ffconcat"
    /\ ws[VideoPlaylistFile].data = <<"c2.ts", "#EXTINF:10,", "c1.ts">>
    /\ spc = "segmentor"

(* the place of a side effect in the order of the pipeline, the chunks taken
   in the line order of the playlist *)
EffectRank(e) ==
    LET chunks == NonCommentLines(ws[VideoPlaylistFile].data)
        n == Len(chunks)
    IN CASE e = SourceMetadata -> 1
         [] e = ProfileFile -> 2
         [] e = VideoPlaylistFile -> 3
         [] e = SplitMetadata -> 4
         [] e = ConcatFile -> 5 + 2 * n
         [] e = "hls" -> 6 + 2 * n
         [] e = "rmtree" -> 7 + 2 * n
         [] \E i \in 1..n : e = ResultFile(chunks[i]) ->
              4 + 2 * (CHOOSE i \in 1..n : e = ResultFile(chunks[i])) - 1
         [] \E i \in 1..n : e = Sentinel(chunks[i]) ->
              4 + 2 * (CHOOSE i \in 1..n : e = Sentinel(chunks[i]))
         [] OTHER -> 0

(* C12: within one run of the pipeline every side effect comes after all the
   earlier ones in the order source.json, profile.json, split artifacts,
   split.json, then per chunk in playlist order the chunk file and its
   sentinel, then concat.ffconcat, the HLS output, and the deletion of the
   temp tree. *)
SideEffectsInOrder ==
    [][(effects' # effects /\ effects' # <<>>) =>
         /\ Len(effects') = Len(effects) + 1
         /\ SubSeq(effects', 1, Len(effects)) = effects
         /\ EffectRank(effects'[Len(effects')]) > 0
         /\ \A i \in 1..Len(effects) :
              EffectRank(effects[i]) < EffectRank(effects'[Len(effects')])]_vars

(* C12 witness: a run that did every step for a playlist of two chunks, the
   second in alphabetical order first, and deleted the temp tree *)
FullRunLogged ==
    effects = <<SourceMetadata, ProfileFile, VideoPlaylistFile, SplitMetadata,
                ResultFile("c2.ts"), Sentinel("c2.ts"),
                ResultFile("c1.ts"), Sentinel("c1.ts"),
                ConcatFile, "hls", "rmtree">>

(* the sentinel of a guarded step *)
SentinelOf(s) ==
    CASE s = "analyze_source" -> SourceMetadata
      [] s = "select_profile" -> ProfileFile
      [] s = "split" -> SplitMetadata

(* C14: for Analyze, Select-profile and Split: a sentinel that exists on entry
   parses to a value, the step goes on with that value and its operation is
   not invoked; with no sentinel the operation is invoked exactly once in the
   run and the sentinel is written with its result. *)
SentinelDecidesOperation ==
    /\ [](\A s \in GuardedSteps :
            (spc = s /\ step = "check" /\ Exists(SentinelOf(s))) =>
                Loads(ws[SentinelOf(s)]) # "JSONDecodeError")
    /\ [][\A s \in GuardedSteps :
            /\ (spc = s /\ step = "check" /\ spc' \notin {s, "idle"}) =>
                 /\ Exists(SentinelOf(s))
                 /\ invoked'[s] = invoked[s]
                 /\ values'[s] = Loads(ws[SentinelOf(s)])
            /\ (spc = s /\ step = "check" /\ step' = "write") =>
                 /\ ~Exists(SentinelOf(s))
                 /\ invoked[s] = 0 /\ invoked'[s] = 1
                 /\ pending' = Dumps(values'[s])
            /\ (spc = s /\ step = "fill" /\ spc' \notin {s, "idle"}) =>
                 /\ ws'[SentinelOf(s)] = Dumps(values[s])
                 /\ invoked[s] = 1]_vars

(* C15: the commit of lock_video saves the PROCESS status together with a
   basename: a new one when the job had none, the one the job already had
   otherwise. *)
BasenameSetOnLock ==
    [][\A w \in Workers :
         (pc[w] = "lock_commit" /\ pc'[w] = "process_video") =>
              /\ status' = PROCESS
              /\ IF basename = NULL THEN basename' # NULL
                                    ELSE basename' = basename]_vars

(* the step is a lock_video that did not get the row: it takes a message
   off the queue and leaves the worker where it was *)
LockRefused ==
    /\ msgs' # msgs
    /\ pc' = pc
    /\ sent' = sent /\ redelivered' = redelivered
    /\ result'.kind # "OperationalError"

(* C16 as stated: a lock_video that finds the row locked, a foreign task_id
   or a status other than QUEUED changes no field of the row, enters neither
   process_video nor unlock_video, and the task is retried. *)
LockRefusedAlwaysRetried ==
    [][LockRefused =>
         /\ rowVars' = rowVars /\ rowLock' = rowLock
         /\ result'.kind = "Retry"
         /\ \E m \in Msg :
              /\ msgs[m] > 0
              /\ [id |-> m.id, retries |-> m.retries + 1] \in Msg
              /\ msgs' = [msgs EXCEPT ![m] = @ - 1,
                            ![[id |-> m.id, retries |-> m.retries + 1]] = @ + 1]]_vars

(* C16, amended: lock_video goes on to process_video only if the row is not
   locked, its task_id is the task's own and its status is QUEUED; otherwise
   no field of the row changes, neither process_video nor unlock_video is
   entered, and the task is retried while it has been retried fewer than
   max_retries times, after which the lock error is raised and the task
   ends. *)
LockRefusedRetriedInBound ==
    [][/\ \A w \in Workers :
            (pc[w] = "idle" /\ pc'[w] = "lock_commit") =>
                /\ rowLock = NULL
                /\ task_id = request'[w].id
                /\ status = QUEUED
                /\ rowVars' = rowVars
       /\ LockRefused =>
            /\ rowVars' = rowVars /\ rowLock' = rowLock
            /\ \E m \in Msg :
                 /\ msgs[m] > 0
                 /\ rowLock # NULL \/ task_id # m.id \/ status # QUEUED
                 /\ IF m.retries < MaxRetries
                    THEN /\ msgs' = [msgs EXCEPT ![m] = @ - 1,
                                       ![[id |-> m.id, retries |-> m.retries + 1]] = @ + 1]
                         /\ result'.kind = "Retry"
                    ELSE /\ msgs' = [msgs EXCEPT ![m] = @ - 1]
                         /\ result'.kind \in {"DoesNotExist", "ValueError"}]_vars

(* C16 witness: a task that was refused the lock once more than max_retries
   times has ended with the lock error, the job being processed by another *)
LockRefusedForGood ==
    /\ result.kind = "ValueError"
    /\ status = PROCESS
    /\ \A m \in Msg : msgs[m] = 0

(* the step is a lock_video that failed on the database connection *)
LockTransportFailed ==
    /\ msgs' # msgs
    /\ pc' = pc
    /\ sent' = sent /\ redelivered' = redelivered
    /\ result'.kind = "OperationalError"

(* C17: a task refused by lock_video for a logical reason is published again
   only while it has been retried fewer than max_retries times, and a task
   whose lock_video failed on the database connection is published again
   whatever its number of retries. *)
RetryBoundByCause ==
    [][/\ LockRefused =>
            \E m \in Msg :
                /\ msgs[m] > 0
                /\ IF m.retries < MaxRetries
                   THEN msgs' = [msgs EXCEPT ![m] = @ - 1,
                                   ![[id |-> m.id, retries |-> m.retries + 1]] = @ + 1]
                   ELSE msgs' = [msgs EXCEPT ![m] = @ - 1]
       /\ LockTransportFailed =>
            \E m \in Msg : \E r \in 0..MaxRetries :
                /\ msgs[m] > 0
                /\ msgs' = [msgs EXCEPT ![m] = @ - 1,
                              ![[id |-> m.id, retries |-> r]] = @ + 1]]_vars

(* C18: when a job is committed DONE, no stream of the persisted metadata
   has a field scenes, streams, start or device, and the persisted duration
   is the minimum of the durations of the output streams. *)
DoneMetadataCleaned ==
    (status = DONE /\ metadata \in Metas) =>
        LET out == OutputStreams(AsDict(metadata))
        IN  /\ \A i \in DOMAIN out :
                 {"scenes", "streams", "start", "device"} \cap DOMAIN out[i] = {}
            /\ duration # NULL
            /\ \E i \in DOMAIN out : duration = out[i].duration
            /\ \A i \in DOMAIN out : duration <= out[i].duration

(***************************************************************************)
(* Properties of the encoder run.                                          *)
(***************************************************************************)

(* the message Processor.run raises with: the captured error text, or the
   return code when no text was captured *)
EncodeErrorCarried ==
    encoded.kind = "RuntimeError" =>
        encoded.args = IF ffReturn.error # <<>>
                       THEN ffReturn.error
                       ELSE <<"invalid ffmpeg return code "
                              \o ToString(ffReturn.return_code)>>

(* C19: an encoder run succeeds if and only if ffmpeg exits with status 0
   and no [error] line was captured; any other run raises an error carrying
   the captured error text, or a message naming the return code when there
   is no text. *)
SucceedsIffZeroAndNoErrorLine ==
    epc = "done" =>
        /\ encoded.kind = "return" <=>
              (ffReturn.return_code = 0 /\ ffReturn.error = <<>>)
        /\ encoded.kind \in {"return", "RuntimeError"}
        /\ EncodeErrorCarried

(* C19 as amended: an encoder run succeeds if and only if ffmpeg exits with
   status 0, whatever [error] lines were captured; a non-zero exit raises an
   error carrying the captured error text, or a message naming the return
   code when there is no text. *)
SucceedsIffZero ==
    epc = "done" =>
        /\ encoded.kind = "return" <=> ffReturn.return_code = 0
        /\ encoded.kind \in {"return", "RuntimeError"}
        /\ EncodeErrorCarried

(* a run that exited 0 with an [error] line captured has returned *)
ZeroExitWithErrorLine ==
    /\ epc = "done"
    /\ ffReturn.return_code = 0
    /\ ffReturn.error # <<>>
    /\ encoded.kind = "return"

(***************************************************************************)
(* Properties of the worker supervisor.                                    *)
(***************************************************************************)

(* C20: on every worker-shutdown event the supervisor makes exactly one
   killpg call, with its own pid as the group and SIGUSR1 as the signal, so
   that every process of its group gets the signal once and no other process
   gets it; if the group has no process the handler still returns. *)
SoftStopSentOnce ==
    [][shutdowns' # shutdowns =>
         /\ Len(kills') = Len(kills) + 1
         /\ kills'[Len(kills')] = [pgid |-> MasterPid, sig |-> SIGUSR1]
         /\ pgid[MasterPid] = MasterPid =>
               \A p \in Procs :
                   delivered'[p] = IF p \in alive \cup {MasterPid}
                                      /\ pgid[p] = pgid[MasterPid]
                                   THEN delivered[p] + 1 ELSE delivered[p]
         /\ Killpg(MasterPid) = "ProcessLookupError" => delivered' = delivered
         /\ handler' = "returned"]_vars

(* two shutdown events were handled: one found no process group and was
   logged, the other signalled a worker process once *)
SoftStopWithAndWithoutGroup ==
    /\ shutdowns = 2
    /\ handler = "returned"
    /\ logged = 1
    /\ Len(kills) = 2
    /\ \E c \in alive : delivered[c] = 1

(***************************************************************************)
(* Properties of saving a Video.                                           *)
(***************************************************************************)

(* C21: a video becomes QUEUED only in a step that publishes exactly one
   task for it, and its task_id is then the id of that task; the send is
   made once for a created video, when its transaction has committed, and
   a save of an existing video publishes nothing and registers no send. *)
SentOnceOnCreate ==
    [][/\ \A v \in Videos :
            /\ (videos'[v].status = QUEUED /\ videos[v].status # QUEUED) =>
                   /\ Len(queue') = Len(queue) + 1
                   /\ queue'[Len(queue')].args = v
                   /\ queue'[Len(queue')].task_id = videos'[v].task_id
            /\ applied'[v] # applied[v] =>
                   /\ applied[v] = 0 /\ applied'[v] = 1
                   /\ videos[v].state = "committed"
            /\ (videos[v].status # QUEUED /\ queue' # queue) =>
                   (queue'[Len(queue')].args = v => videos'[v].status = QUEUED)
            /\ (videos'[v].state = "committed" /\ applied'[v] = 0) =>
                   onCommit'[v] = 1
       /\ saves' # saves => (queue' = queue /\ onCommit' = onCommit
                              /\ applied' = applied)
       /\ Len(queue') <= Len(queue) + 1]_vars

(* both videos were created and saved again, one was sent and is QUEUED
   with the id of its task, the send of the other failed *)
CreatedSavedAndSent ==
    /\ saves = 2
    /\ \E v \in Videos :
          /\ videos[v].status = QUEUED
          /\ applied[v] = 1
          /\ \E i \in DOMAIN queue :
                queue[i] = [task_id |-> videos[v].task_id, args |-> v]
    /\ \E v \in Videos :
          /\ videos[v].state = "committed"
          /\ videos[v].status = CREATED
          /\ applied[v] = 1 /\ onCommit[v] = 0

(***************************************************************************)
(* Properties of the workspace.                                            *)
(***************************************************************************)

(* the k-th prefix of the parts of a resource *)
Prefix(r, k) == SubSeq(r.parts, 1, k)

(* C23: ensure_collection(p) that returns has made the collection and every
   ancestor of it a directory (on WebDAV with one MKCOL per prefix of the
   path, from the workspace root down), and whether it returns or raises it
   issues only MKCOL and leaves everything that existed as it was; a second
   call with the same p, the backend not failing, returns the same
   Collection and changes nothing. *)
EnsureCollectionIdempotent ==
    [][(last'.op = "ensure_collection" /\ last' # last) =>
         /\ last'.result.kind = "return" =>
               /\ \A k \in 0..Len(last'.r.parts) :
                     tree'[Prefix(last'.r, k)] = "dir"
               /\ wsObj.kind = "WebDAVWorkspace" =>
                     /\ Len(requests') = Len(last'.r.parts) + 1
                     /\ \A k \in 0..Len(last'.r.parts) :
                           requests'[k + 1].uri =
                               MkcolUri(wsObj, Collection(Prefix(last'.r, k)))
         /\ \A q \in Paths : tree[q] # "none" => tree'[q] = tree[q]
         /\ \A i \in DOMAIN requests' : requests'[i].method = "MKCOL"
         /\ ( /\ last.op = "ensure_collection"
              /\ last.result.kind = "return"
              /\ last'.arg = last.arg
              /\ last'.fault = NoFault ) =>
               /\ last'.result = last.result
               /\ last'.r = last.r
               /\ tree' = tree]_vars

(* ensure_collection of a/b returned on WebDAV where a/b and its ancestors
   were collections already: every MKCOL was answered 405 *)
EnsuredAgain ==
    /\ last.op = "ensure_collection"
    /\ wsObj.kind = "WebDAVWorkspace"
    /\ last.r = Collection(<<"a", "b">>)
    /\ last.before[<<"a", "b">>] = "dir"
    /\ last.result.kind = "return"
    /\ \A i \in DOMAIN requests : requests[i].status = METHOD_NOT_ALLOWED
    /\ tree = last.before

(* C24: on WebDAV create_collection and ensure_collection go on after a
   MKCOL answered 405 and return when every MKCOL was answered 201 or 405;
   a MKCOL answered 409, or with any other error status, is the last request
   and the operation raises. *)
MkcolExistsIsSuccess ==
    (last.op \in {"create_collection", "ensure_collection"}
     /\ wsObj.kind = "WebDAVWorkspace") =>
        /\ \A i \in DOMAIN requests :
              /\ requests[i].status = 405 =>
                    (i < Len(requests) \/ last.result.kind = "return")
              /\ requests[i].status \in {403, 409, 500} =>
                    (i = Len(requests) /\ last.result = Raise("HTTPError"))
        /\ last.result.kind = "return" <=>
              \A i \in DOMAIN requests : requests[i].status \in {201, 405}

(* a MKCOL answered 405 was passed and the next one, answered 409, made the
   operation raise *)
MkcolConflictAfterExists ==
    /\ last.op \in {"create_collection", "ensure_collection"}
    /\ Len(requests) = 2
    /\ requests[1].status = 405
    /\ requests[2].status = 409
    /\ last.result = Raise("HTTPError")

(* what every absolute URI has: the scheme and host of the workspace, and
   the names of the base path followed by the parts of the resource *)
AbsoluteUriJoinsParts ==
    /\ last.uri.scheme = wsObj.uri.scheme
    /\ last.uri.netloc = wsObj.uri.netloc
    /\ PathParts(last.uri.path) = PathParts(base.path) \o last.r.parts

EndsWithSlash(p) == p # <<>> /\ p[Len(p)] = Slash

(* C25: the absolute URI of a resource has the names of the base path
   followed by the parts of the resource, in their order, and ends with a
   slash if and only if the resource is a Collection. *)
TrailingSlashIffCollection ==
    last.op \notin {"none", "init"} =>
        /\ AbsoluteUriJoinsParts
        /\ EndsWithSlash(last.uri.path) <=> last.r.kind = "Collection"

(* C25 as amended: the same, except that a resource without parts in a
   workspace whose base path has no names gets the base URI itself. *)
TrailingSlashIffCollectionBelowBase ==
    last.op \notin {"none", "init"} =>
        /\ AbsoluteUriJoinsParts
        /\ IF PathParts(base.path) \o last.r.parts = <<>>
           THEN last.uri = wsObj.uri
           ELSE EndsWithSlash(last.uri.path) <=> last.r.kind = "Collection"

(* an operation on the root collection of a workspace whose base has no
   path *)
RootOfBareBase ==
    /\ last.op = "create_collection"
    /\ last.r = Collection(<<>>)
    /\ base.path = <<>>
    /\ last.uri.path = <<>>

(* C26: exists(r) returns True when the resource is there, False when the
   backend reports it missing, and raises when the backend fails in another
   way. *)
ExistsRaisesOtherErrors ==
    last.op = "exists" =>
        /\ (last.fault = NoFault /\ last.before[last.r.parts] # "none") =>
              last.result = Returned("True")
        /\ (last.fault = NoFault /\ last.before[last.r.parts] = "none") =>
              last.result = Returned("False")
        /\ last.fault # NoFault => last.result.kind = "raise"

(* C27: delete_collection(c) that returns leaves nothing at c or below it
   and everything else as it was; it returns when c does not exist, and it
   raises, changing nothing, when the backend fails in another way. *)
DeleteCollectionTolerant ==
    last.op = "delete_collection" =>
        /\ last.result.kind = "return" =>
              \A q \in Paths :
                  tree[q] = IF Below(q, last.r.parts) THEN "none"
                            ELSE last.before[q]
        /\ last.result.kind = "raise" => tree = last.before
        /\ (last.fault = NoFault /\ last.before[last.r.parts] = "none") =>
              last.result = Returned("None")
        /\ (last.fault = NoFault /\ last.before[last.r.parts] = "dir") =>
              last.result = Returned("None")
        /\ last.fault # NoFault => last.result.kind = "raise"

(* a WebDAV delete_collection of a collection that is not there returned
   after a 404 *)
DeletedMissingCollection ==
    /\ last.op = "delete_collection"
    /\ wsObj.kind = "WebDAVWorkspace"
    /\ last.before[last.r.parts] = "none"
    /\ Len(requests) = 1 /\ requests[1].status = NOT_FOUND
    /\ last.result = Returned("None")

(* C28: every HTTP request of the WebDAV workspace carries the connect and
   the request timeout. *)
EveryRequestHasTimeouts ==
    \A i \in DOMAIN requests : requests[i].timeout = Timeout

(* C29: workspace.init gives a FileSystemWorkspace for file, a
   WebDAVWorkspace over http for dav and over https for davs, and for any
   other scheme raises ValueError, after which there is no workspace and no
   operation. *)
BackendByScheme ==
    base # NoBase =>
        /\ base.scheme = "file" => wsObj.kind = "FileSystemWorkspace"
        /\ base.scheme = "dav" =>
              (wsObj.kind = "WebDAVWorkspace" /\ wsObj.uri.scheme = "http")
        /\ base.scheme = "davs" =>
              (wsObj.kind = "WebDAVWorkspace" /\ wsObj.uri.scheme = "https")
        /\ base.scheme \notin {"file", "dav", "davs"} =>
              /\ wsObj.kind = "ValueError"
              /\ last.op = "init" /\ last.result = Raise("ValueError")
              /\ requests = <<>>

(* a davs workspace was made and has sent a request over https *)
DavsOverHttps ==
    /\ base.scheme = "davs"
    /\ wsObj.kind = "WebDAVWorkspace"
    /\ requests # <<>> /\ requests[1].uri.scheme = "https"

(***************************************************************************)
(* Properties of profile selection and of validation.                      *)
(***************************************************************************)

(* the least element of a non-empty set of numbers *)
Least(S) == CHOOSE x \in S : \A y \in S : x <= y

(* C22: select_profile returns the preset's tracks listed by the first
   video profile whose condition the source video stream satisfies and, not
   depending on it, those listed by the first audio profile whose condition
   the source audio stream satisfies; when no video profile or no audio
   profile is satisfied it raises and returns no profile. *)
FirstMatchingProfiles ==
    selected.kind # "none" =>
        LET p == selectArgs.preset
            vs == {i \in DOMAIN p.video_profiles :
                     VideoIsValid(p.video_profiles[i].condition, selectArgs.video)}
            as == {i \in DOMAIN p.audio_profiles :
                     AudioIsValid(p.audio_profiles[i].condition, selectArgs.audio)}
        IN  IF vs = {} \/ as = {}
            THEN selected.kind = "raise" /\ selected.profile = NoProfile
            ELSE /\ selected.kind = "return"
                 /\ selected.profile.video =
                      SelectSeq(p.video, LAMBDA v :
                          v.id \in Ids(p.video_profiles[Least(vs)].video))
                 /\ selected.profile.audio =
                      SelectSeq(p.audio, LAMBDA a :
                          a.id \in Ids(p.audio_profiles[Least(as)].audio))

(* a preset of two video profiles that the source satisfies both, the
   first of which was selected *)
FirstOfTwoSelected ==
    /\ selected.kind = "return"
    /\ Len(selectArgs.preset.video_profiles) = 2
    /\ \A i \in 1..2 :
          VideoIsValid(selectArgs.preset.video_profiles[i].condition,
                       selectArgs.video)
    /\ selectArgs.preset.video_profiles[1].video
          # selectArgs.preset.video_profiles[2].video
    /\ selected.profile.container.segment_duration
          = selectArgs.preset.video_profiles[1].segment_duration

(* C30: a transcode whose shortest result stream is shorter than 0.95 of
   the longest source stream fails validation and its job ends in ERROR; a
   result at or above that passes validation. *)
ShortResultEndsInError ==
    durations # NoDurations =>
        LET s == durations.src
            d == durations.dst
            least == Least({d.video, d.audio})
            most == CHOOSE y \in {s.video, s.audio} :
                        \A z \in {s.video, s.audio} : z <= y
        IN  IF least * 100 < 95 * most
            THEN validation = "TranscodeError" /\ jobStatus = ERROR
            ELSE validation = "none"

(***************************************************************************)
(* Properties of the job row and of lost workers.                          *)
(***************************************************************************)

(* the step is the commit of w's lock_video *)
LockCommits(w) == pc[w] = "lock_commit" /\ pc'[w] = "process_video"

(* the step is the commit of w's unlock_video *)
UnlockCommits(w) == pc[w] = "unlock_commit" /\ pc'[w] = "idle"

(* C40: change_status writes only the status, the modified timestamp and
   the fields passed to it: a column is changed by a step only if the save
   of that step wrote it, lock_video writes status and modified and changes
   no other field, and unlock_video neither writes nor changes task_id,
   basename, source or preset. *)
ChangeStatusWritesOnlyGiven ==
    [][ /\ status' # status => "status" \in written'
        /\ task_id' # task_id => "task_id" \in written'
        /\ basename' # basename => "basename" \in written'
        /\ error' # error => "error" \in written'
        /\ metadata' # metadata => "metadata" \in written'
        /\ duration' # duration => "duration" \in written'
        /\ \A w \in Workers :
             /\ LockCommits(w) =>
                  /\ written' = {"status", "modified"}
                  /\ status' = PROCESS
                  /\ UNCHANGED <<task_id, basename, error, metadata, duration>>
             /\ UnlockCommits(w) =>
                  /\ written' \cap {"task_id", "basename", "source", "preset"} = {}
                  /\ UNCHANGED <<task_id, basename>>
      ]_vars

(* a job that was locked and unlocked with an outcome, whose task_id is
   still the one send_transcode_task gave it *)
UnlockedWithOutcome ==
    /\ status \in {DONE, ERROR}
    /\ task_id \in TaskIds
    /\ written = {"status", "modified", "error", "metadata"}

(* the job is in PROCESS and no running task has its task_id *)
Orphaned ==
    /\ status = PROCESS
    /\ \A w \in Workers : pc[w] = "idle" \/ request[w].id # task_id

(* C39: a job left in PROCESS by a lost worker stays in PROCESS, and no
   task, redelivered or retried, gets hold of it, until send_transcode_task
   is called for it again; and only the loss of a worker leaves a job in
   PROCESS without a task running it. *)
LostJobStaysInProcess ==
    [][ /\ (Orphaned /\ sent' = sent) => Orphaned'
        /\ (~Orphaned /\ Orphaned') =>
              \E w \in Workers : pc[w] # "idle" /\ pc'[w] = "idle"
                                 /\ redelivered' = redelivered + 1
      ]_vars

(* the worker was lost, the redelivered task was refused until its retries
   ran out, and the job is still in PROCESS with nothing left to run *)
LostJobTaskGaveUp ==
    /\ Orphaned
    /\ redelivered > 0
    /\ result.kind = "ValueError"
    /\ Drained
(***************************************************************************)
(* Properties of the sentinel round trip.                                  *)
(***************************************************************************)

(* what == compares of a Python value: numbers by their value whatever
   their type (TS is a float), everything else by class and content *)
RECURSIVE Compared(_)
Compared(v) ==
    CASE v.py \in {"int", "float", "TS"} -> [py |-> "number", v |-> v.v]
      [] v.py = "list" ->
            List([i \in DOMAIN v.items |-> Compared(v.items[i])])
      [] v.py \in {"None", "str"} -> v
      [] OTHER -> Obj(v.py, [k \in DOMAIN v.d |-> Compared(v.d[k])])

(* C31: the value a step returns when it loads its sentinel (json.loads and
   from_native) is equal to the value the step returned in the run that
   wrote the sentinel (asdict and json.dumps), for Metadata and for
   Profile. *)
SentinelRoundTrip ==
    resumed # PyNone => Compared(resumed) = Compared(stepValue)

(* a Metadata of two scenes was loaded from its sentinel, and its scenes
   are Scene instances again *)
MetadataLoadedFromSentinel ==
    /\ resumed # PyNone
    /\ resumed.py = "Metadata"
    /\ Len(resumed.d.videos.items[1].d.scenes.items) = 2
    /\ resumed.d.videos.items[1].d.scenes.items[2].py = "Scene"
    /\ resumed.d.videos.items[1].d.duration = PyFloat(stepValue.d.videos.items[1].d.duration.v)
(***************************************************************************)
(* Properties of merge_metadata.                                           *)
(***************************************************************************)

(* the sum of field f, and the scenes in chunk order, of the i-th stream of
   kind k over the chunks up to the n-th *)
RECURSIVE FieldSum(_, _, _, _, _)
FieldSum(chunks, n, k, i, f) ==
    IF n = 0 THEN 0
    ELSE FieldSum(chunks, n - 1, k, i, f) + chunks[n][k][i][f]

RECURSIVE ScenesInOrder(_, _, _, _)
ScenesInOrder(chunks, n, k, i) ==
    IF n = 0 THEN <<>>
    ELSE ScenesInOrder(chunks, n - 1, k, i) \o chunks[n][k][i].scenes

(* C33: merge_metadata over the chunk sequence gives, for every video
   stream, the sum of the chunks' durations, the sum of their frames and
   their scenes in chunk order, and for every audio stream the same with
   samples; of a single chunk it gives that chunk's metadata. *)
MergedMetadataSums ==
    called = "merge_metadata" =>
        LET n == Len(args)
        IN  /\ Len(returned.videos) = Len(args[1].videos)
            /\ Len(returned.audios) = Len(args[1].audios)
            /\ \A i \in DOMAIN returned.videos :
                 /\ returned.videos[i].duration = FieldSum(args, n, "videos", i, "duration")
                 /\ returned.videos[i].frames = FieldSum(args, n, "videos", i, "frames")
                 /\ returned.videos[i].scenes = ScenesInOrder(args, n, "videos", i)
            /\ \A i \in DOMAIN returned.audios :
                 /\ returned.audios[i].duration = FieldSum(args, n, "audios", i, "duration")
                 /\ returned.audios[i].samples = FieldSum(args, n, "audios", i, "samples")
                 /\ returned.audios[i].scenes = ScenesInOrder(args, n, "audios", i)
            /\ n = 1 => returned = args[1]

(* three chunks of different durations with two video streams and an audio
   stream were merged *)
ThreeChunksMerged ==
    /\ called = "merge_metadata"
    /\ Len(args) = 3
    /\ Len(args[1].videos) = 2 /\ Len(args[1].audios) = 1
    /\ args[1].videos[1].duration = 5 /\ args[2].videos[1].duration = 2
    /\ returned.videos[2].duration = 10
(***************************************************************************)
(* Properties of the Segmentor's var_stream_map.                           *)
(***************************************************************************)

(* text.split(' '): the entries of a var_stream_map *)
RECURSIVE SplitSpace(_, _)
SplitSpace(text, entry) ==
    IF text = <<>> THEN (IF entry = <<>> THEN <<>> ELSE <<entry>>)
    ELSE IF Head(text) = " " THEN <<entry>> \o SplitSpace(Tail(text), <<>>)
    ELSE SplitSpace(Tail(text), Append(entry, Head(text)))

(* C34: for output codecs with A audio and V video entries the
   var_stream_map has exactly A entries that start with a: and A*V that
   start with v:, one for every audio and video pair, which names the
   agroup of the pair's audio entry. *)
VarStreamMapPairs ==
    called = "get_var_stream_map" =>
        LET A == Len(OfKind(args, AUDIO))
            V == Len(OfKind(args, VIDEO))
            entries == SplitSpace(returned, <<>>)
            starting(p) == {e \in DOMAIN entries : entries[e][1] = p}
        IN  /\ Cardinality(starting("a:")) = A
            /\ Cardinality(starting("v:")) = A * V
            /\ Len(entries) = A + A * V
            /\ \A i \in 0..(A - 1) :
                 /\ \E e \in starting("a:") :
                      /\ entries[e][2] = ToString(i)
                      /\ entries[e][4] = ToString(i)
                 /\ \A j \in 0..(V - 1) :
                      Cardinality({e \in starting("v:") :
                          /\ entries[e][2] = ToString(j)
                          /\ entries[e][4] = ToString(i)}) = 1

(* two audio and two video codecs gave six entries *)
TwoByTwoStreamMap ==
    /\ called = "get_var_stream_map"
    /\ Len(OfKind(args, AUDIO)) = 2
    /\ Len(OfKind(args, VIDEO)) = 2
    /\ Len(SplitSpace(returned, <<>>)) = 6
(***************************************************************************)
(* Properties of the Analyzer's normalization.                             *)
(***************************************************************************)

Abs(x) == IF x < 0 THEN -x ELSE x

(* C35: for a video track with non-zero width and height, fix_par leaves
   |DAR - (width / height) * PAR| < 0.001 in the track when at most one of
   DAR and PAR was unknown, and PAR = 1 and DAR = width / height when both
   were. *)
AspectWithinTolerance ==
    (called = "fix_par" /\ args.width # 0 /\ args.height # 0) =>
        IF args.dar = 0 /\ args.par = 0
        THEN /\ returned.par = 1000
             /\ returned.dar = RoundHalfEven(1000 * args.width, args.height)
        ELSE Abs(returned.dar * args.height - args.width * returned.par)
                < args.height

(* C36: fix_frames restores the one of duration, frame_rate and frames that
   is unknown from frames = duration * frame_rate (frames as the nearest
   integer) and leaves the other two; with all three known and more than
   one frame off it recomputes frame_rate as frames / duration and leaves
   the other two; with two or more unknown it changes no field. *)
FramesReconstructed ==
    called = "fix_frames" =>
        LET unknown == {k \in {"duration", "frame_rate", "frames"} : args[k] = 0}
            g == Gcd(1000000000, args.frame_rate)
            rateFromOthers ==
                /\ 2 * Abs(returned.frame_rate * args.duration
                           - args.frames * 1000000) <= args.duration
                /\ returned.frames = args.frames
                /\ returned.duration = args.duration * 1000
        IN  /\ Cardinality(unknown) >= 2 =>
                 /\ ~returned.fixed
                 /\ returned.frames = args.frames
                 /\ returned.frame_rate = args.frame_rate
                 /\ returned.duration = args.duration * 1000
            /\ unknown = {"frames"} =>
                 /\ 2 * Abs(returned.frames * 1000000
                            - args.duration * args.frame_rate) <= 1000000
                 /\ returned.frame_rate = args.frame_rate
                 /\ returned.duration = args.duration * 1000
            /\ unknown = {"frame_rate"} => rateFromOthers
            /\ unknown = {"duration"} =>
                 /\ 2 * Abs(returned.duration * (args.frame_rate \div g)
                            - args.frames * (1000000000 \div g))
                       <= args.frame_rate \div g
                 /\ returned.frames = args.frames
                 /\ returned.frame_rate = args.frame_rate
            /\ (unknown = {} /\ Abs(args.frames * 1000000
                                    - args.duration * args.frame_rate) > 1000000)
                 => rateFromOthers

(* 125 frames reported for four seconds at 25 frames per second: the frame
   rate was recomputed as 31.25 *)
FrameRateRecomputed ==
    /\ called = "fix_frames"
    /\ args = [duration |-> 4000, frame_rate |-> 25000, frames |-> 125]
    /\ returned.frame_rate = 31250
(***************************************************************************)
(* Properties of the workspace of the resumable strategy.                  *)
(***************************************************************************)

(* C32: after initialize the temp tree with sources/ and results/ and the
   store tree exist, and every file that was in the workspace before it ran
   is there unchanged, as is what the store tree held. *)
InitializeKeepsFiles ==
    [][ runs' = runs + 1 =>
          /\ wsRoot'
          /\ store' # "absent"
          /\ store # "absent" => store' = store
          /\ \A f \in Files : ws'[f] = ws[f]
      ]_vars

(* initialize has just run on a workspace that holds sentinels, a playlist
   and a chunk of an earlier run *)
InitializedOnPopulated ==
    /\ runs >= 2
    /\ spc = "analyze_source" /\ step = "check"
    /\ Exists(SourceMetadata) /\ Exists(VideoPlaylistFile)
    /\ Exists(ResultFile("c1.ts")) /\ Exists(Sentinel("c1.ts"))

(* C37: over any sequence of runs for the basename, raising ones included,
   a sentinel that exists is neither deleted nor given other content, except
   by the deletion of the temp tree at the end of a run that returned and
   by the write that is creating it; so the sentinels only grow in number
   until a run succeeds. *)
SentinelsKept ==
    [][ \A f \in Sentinels :
          (/\ Exists(f)
           /\ spc # "exit"
           /\ ~(step = "fill" /\ StepFile = f))
          => ws'[f] = ws[f]
      ]_vars

(* the third run, after two that raised, has the sentinels of both and has
   added one *)
SentinelsOverThreeRuns ==
    /\ runs = 3
    /\ spc = "process_segment" /\ idx = 2 /\ step = "check"
    /\ Exists(SourceMetadata) /\ Exists(ProfileFile) /\ Exists(SplitMetadata)
    /\ ws[Sentinel("c1.ts")].kind = "json"
(***************************************************************************)
(* Progress of a job requeued by a graceful shutdown.                      *)
(***************************************************************************)

(* the job was committed QUEUED by a run that a graceful shutdown stopped *)
Requeued == status = QUEUED /\ error = Repr(SoftTimeLimitExceeded)

(* a task carrying the job's task_id has locked the job *)
LockedAgain ==
    /\ status = PROCESS
    /\ \E w \in Workers : pc[w] = "process_video" /\ request[w].id = task_id

(* C38: with every enqueued task eventually delivered and every step
   eventually succeeding, a job requeued by a graceful shutdown is eventually
   locked again by the task that carries its task_id, and eventually reaches
   DONE or ERROR. *)
RequeuedJobFinishes ==
    /\ Requeued ~> LockedAgain
    /\ Requeued ~> (status \in {DONE, ERROR})

(* what holds: a requeued job whose retried task is in the queue is locked
   again by it, and a job is left QUEUED for good only by the shutdown of a
   task that had no retry left *)
RequeuedWithTaskLockedAgain ==
    (Requeued /\ \E m \in Msg : msgs[m] > 0) ~> LockedAgain

RequeuedFinishesOrExhausted ==
    Requeued ~> \/ status \in {DONE, ERROR}
                \/ Requeued /\ result.kind = "MaxRetriesExceededError"

====
